---- MODULE Spec2Model ----
(***************************************************************************)
(* A model of the CHIP-8 emulator "joe": the instruction decoder, the      *)
(* memory, the display, the keypad input and the CPU interpreter.  Every   *)
(* component is a record with the fields of the Rust struct it models and  *)
(* every method is an operator from the records it borrows to the records  *)
(* it leaves behind plus the Result it returns.                            *)
(***************************************************************************)
EXTENDS Integers, Sequences, FiniteSets, TLC

VARIABLES
    cpu,        \* the Cpu
    memory,     \* the Memory
    display,    \* the Display
    input,      \* the input (MockInput)
    result,     \* what the last call of the operation under study returned
    cycles,     \* the number of execute_cycle calls made so far
    arg         \* the argument of a free function under study

vars == <<cpu, memory, display, input, result, cycles, arg>>

(***************************************************************************)
(* Program constants (src/src/lib.rs, mod constants; src/src/memory.rs).   *)
(***************************************************************************)
MEMORY_SIZE == 4096
FONT_START_ADDR == 80
PROGRAM_START_ADDR == 512
DISPLAY_WIDTH == 64
DISPLAY_HEIGHT == 32
NUM_REGISTERS == 16
STACK_SIZE == 16
NUM_KEYS == 16
INTERPRETER_END_ADDR == 511
FONT_HEIGHT == 5
FONT_SET_SIZE == 16 * FONT_HEIGHT
MAX_ROM_SIZE == MEMORY_SIZE - PROGRAM_START_ADDR
MAX_SPRITE_HEIGHT == 15

FONT_SET ==
    << 240, 144, 144, 144, 240,     32,  96,  32,  32, 112,
       240,  16, 240, 128, 240,    240,  16, 240,  16, 240,
       144, 144, 240,  16,  16,    240, 128, 240,  16, 240,
       240, 128, 240, 144, 240,    240,  16,  32,  64,  64,
       240, 144, 240, 144, 240,    240, 144, 240,  16, 240,
       240, 144, 240, 144, 144,    224, 144, 224, 144, 224,
       240, 128, 128, 128, 240,    224, 144, 144, 144, 224,
       240, 128, 240, 128, 240,    240, 128, 240, 128, 128 >>

(***************************************************************************)
(* Bounds of the model.                                                    *)
(***************************************************************************)
\* execute_cycle calls explored per run of the machine
MaxCycles == 5
\* execute_cycle calls explored per run of the call-stack programs
MaxCallCycles == 33
\* key presses the input may hold before one is taken
MaxQueue == 1

(***************************************************************************)
(* Machine integers and Rust's Result / Option.                            *)
(***************************************************************************)
U8 == 0..255
U16 == 0..65535

Ok(value) == [ok |-> TRUE, val |-> value]
Err(e) == [ok |-> FALSE, err |-> e]
None == [some |-> FALSE]
Some(value) == [some |-> TRUE, val |-> value]

\* bit k (0 = least significant) of a
Bit(a, k) == (a \div (2 ^ k)) % 2

RECURSIVE BitwiseFold(_, _, _, _)
\* bitwise combination of two bytes, bit by bit: op is "and", "or" or "xor"
BitwiseFold(op, a, b, k) ==
    IF k = 8 THEN 0
    ELSE LET x == Bit(a, k)
             y == Bit(b, k)
             z == CASE op = "and" -> x * y
                    [] op = "or"  -> IF x + y > 0 THEN 1 ELSE 0
                    [] op = "xor" -> (x + y) % 2
         IN  z * (2 ^ k) + BitwiseFold(op, a, b, k + 1)

BitAnd(a, b) == BitwiseFold("and", a, b, 0)
BitOr(a, b) == BitwiseFold("or", a, b, 0)
BitXor(a, b) == BitwiseFold("xor", a, b, 0)

(***************************************************************************)
(* Instruction decoder (src/src/instruction.rs).                           *)
(***************************************************************************)
UnknownInstruction(opcode) == [kind |-> "UnknownInstruction", opcode |-> opcode]
DecodeInvalidRegister(register) == [kind |-> "InvalidRegister", register |-> register]

\* validate_registers with the bound off by one: VF is refused
validate_registers_off_by_one(vx, vy) ==
    IF vx >= 15 THEN Some(DecodeInvalidRegister(vx))
    ELSE IF vy >= 15 THEN Some(DecodeInvalidRegister(vy))
    ELSE None

\* "Validate register indices": the error the two checks return, if any
validate_registers(vx, vy) ==
    IF vx > 15 THEN Some(DecodeInvalidRegister(vx))
    ELSE IF vy > 15 THEN Some(DecodeInvalidRegister(vy))
    ELSE None

\* the 0x8000 arm with the arms of nibbles 6 and 7 exchanged
decode_arithmetic_swapped(opcode, vx, vy, nibble) ==
    CASE nibble = 0 -> Ok([op |-> "LoadReg", vx |-> vx, vy |-> vy])
      [] nibble = 1 -> Ok([op |-> "OrReg", vx |-> vx, vy |-> vy])
      [] nibble = 2 -> Ok([op |-> "AndReg", vx |-> vx, vy |-> vy])
      [] nibble = 3 -> Ok([op |-> "XorReg", vx |-> vx, vy |-> vy])
      [] nibble = 4 -> Ok([op |-> "AddReg", vx |-> vx, vy |-> vy])
      [] nibble = 5 -> Ok([op |-> "SubReg", vx |-> vx, vy |-> vy])
      [] nibble = 6 -> Ok([op |-> "SubnReg", vx |-> vx, vy |-> vy])
      [] nibble = 7 -> Ok([op |-> "ShrReg", vx |-> vx])
      [] nibble = 14 -> Ok([op |-> "ShlReg", vx |-> vx])
      [] OTHER -> Err(UnknownInstruction(opcode))

\* the 0x8000 arm of decode_opcode: match nibble
decode_arithmetic(opcode, vx, vy, nibble) ==
    CASE nibble = 0 -> Ok([op |-> "LoadReg", vx |-> vx, vy |-> vy])
      [] nibble = 1 -> Ok([op |-> "OrReg", vx |-> vx, vy |-> vy])
      [] nibble = 2 -> Ok([op |-> "AndReg", vx |-> vx, vy |-> vy])
      [] nibble = 3 -> Ok([op |-> "XorReg", vx |-> vx, vy |-> vy])
      [] nibble = 4 -> Ok([op |-> "AddReg", vx |-> vx, vy |-> vy])
      [] nibble = 5 -> Ok([op |-> "SubReg", vx |-> vx, vy |-> vy])
      [] nibble = 6 -> Ok([op |-> "ShrReg", vx |-> vx])
      [] nibble = 7 -> Ok([op |-> "SubnReg", vx |-> vx, vy |-> vy])
      [] nibble = 14 -> Ok([op |-> "ShlReg", vx |-> vx])
      [] OTHER -> Err(UnknownInstruction(opcode))

decode_opcode(opcode) ==
    LET addr == opcode % 4096
        vx == (opcode \div 256) % 16
        vy == (opcode \div 16) % 16
        byte == opcode % 256
        nibble == opcode % 16
        family == opcode \div 4096
        invalid == validate_registers(vx, vy)
    IN  IF invalid.some THEN Err(invalid.val)
        ELSE CASE family = 0 ->
                    IF opcode = 224 THEN Ok([op |-> "Cls"])
                    ELSE IF opcode = 238 THEN Ok([op |-> "Ret"])
                    ELSE Ok([op |-> "Sys", addr |-> addr])
               [] family = 1 -> Ok([op |-> "Jump", addr |-> addr])
               [] family = 2 -> Ok([op |-> "Call", addr |-> addr])
               [] family = 3 -> Ok([op |-> "SkipEqImm", vx |-> vx, value |-> byte])
               [] family = 4 -> Ok([op |-> "SkipNeImm", vx |-> vx, value |-> byte])
               [] family = 5 ->
                    IF nibble = 0 THEN Ok([op |-> "SkipEqReg", vx |-> vx, vy |-> vy])
                    ELSE Err(UnknownInstruction(opcode))
               [] family = 6 -> Ok([op |-> "LoadImm", vx |-> vx, value |-> byte])
               [] family = 7 -> Ok([op |-> "AddImm", vx |-> vx, value |-> byte])
               [] family = 8 -> decode_arithmetic(opcode, vx, vy, nibble)
               [] family = 9 ->
                    IF nibble = 0 THEN Ok([op |-> "SkipNeReg", vx |-> vx, vy |-> vy])
                    ELSE Err(UnknownInstruction(opcode))
               [] family = 10 -> Ok([op |-> "SetIndex", addr |-> addr])
               [] family = 11 -> Ok([op |-> "JumpV0", addr |-> addr])
               [] family = 12 -> Ok([op |-> "Random", vx |-> vx, mask |-> byte])
               [] family = 13 -> Ok([op |-> "Draw", vx |-> vx, vy |-> vy, n |-> nibble])
               [] family = 14 ->
                    CASE byte = 158 -> Ok([op |-> "SkipKeyPressed", vx |-> vx])
                      [] byte = 161 -> Ok([op |-> "SkipKeyNotPressed", vx |-> vx])
                      [] OTHER -> Err(UnknownInstruction(opcode))
               [] family = 15 ->
                    CASE byte = 7 -> Ok([op |-> "LoadDelayTimer", vx |-> vx])
                      [] byte = 10 -> Ok([op |-> "WaitKey", vx |-> vx])
                      [] byte = 21 -> Ok([op |-> "SetDelayTimer", vx |-> vx])
                      [] byte = 24 -> Ok([op |-> "SetSoundTimer", vx |-> vx])
                      [] byte = 30 -> Ok([op |-> "AddIndex", vx |-> vx])
                      [] byte = 41 -> Ok([op |-> "LoadFont", vx |-> vx])
                      [] byte = 51 -> Ok([op |-> "StoreBcd", vx |-> vx])
                      [] byte = 85 -> Ok([op |-> "StoreRegisters", vx |-> vx])
                      [] byte = 101 -> Ok([op |-> "LoadRegisters", vx |-> vx])
                      [] OTHER -> Err(UnknownInstruction(opcode))
               [] OTHER -> Err(UnknownInstruction(opcode))

(***************************************************************************)
(* Memory (src/src/memory.rs).                                             *)
(***************************************************************************)
OutOfBounds(addr) == [kind |-> "OutOfBounds", addr |-> addr, max |-> MEMORY_SIZE - 1]
WriteProtected(addr) == [kind |-> "WriteProtected", addr |-> addr]
RomTooLarge(size) == [kind |-> "RomTooLarge", size |-> size, max_size |-> MAX_ROM_SIZE]
InvalidFontDigit(digit) == [kind |-> "InvalidFontDigit", digit |-> digit]
WordReadOutOfBounds(addr) == [kind |-> "WordReadOutOfBounds", addr |-> addr]
WordWriteOutOfBounds(addr) == [kind |-> "WordWriteOutOfBounds", addr |-> addr]

\* copies FONT_SET into ram[FONT_START_ADDR .. FONT_START_ADDR + FONT_SET_SIZE)
load_font_data(mem) ==
    [mem EXCEPT !.ram =
        [a \in 0..(MEMORY_SIZE - 1) |->
            IF a >= FONT_START_ADDR /\ a < FONT_START_ADDR + FONT_SET_SIZE
            THEN FONT_SET[a - FONT_START_ADDR + 1]
            ELSE mem.ram[a]]]

MemoryNew(write_protection_enabled) ==
    load_font_data([ram |-> [a \in 0..(MEMORY_SIZE - 1) |-> 0],
                    write_protection_enabled |-> write_protection_enabled])

read_byte(mem, addr) ==
    IF addr >= MEMORY_SIZE THEN Err(OutOfBounds(addr))
    ELSE Ok(mem.ram[addr])

\* write_byte whose protected area ends one byte early
write_byte_protection_off_by_one(mem, addr, value) ==
    IF addr >= MEMORY_SIZE THEN [memory |-> mem, res |-> Err(OutOfBounds(addr))]
    ELSE IF mem.write_protection_enabled /\ addr < INTERPRETER_END_ADDR
    THEN [memory |-> mem, res |-> Err(WriteProtected(addr))]
    ELSE [memory |-> [mem EXCEPT !.ram[addr] = value], res |-> Ok(TRUE)]

\* the returned record holds the memory the call leaves behind and its Result
write_byte(mem, addr, value) ==
    IF addr >= MEMORY_SIZE THEN [memory |-> mem, res |-> Err(OutOfBounds(addr))]
    ELSE IF mem.write_protection_enabled /\ addr <= INTERPRETER_END_ADDR
    THEN [memory |-> mem, res |-> Err(WriteProtected(addr))]
    ELSE [memory |-> [mem EXCEPT !.ram[addr] = value], res |-> Ok(TRUE)]

read_word(mem, addr) ==
    IF addr + 1 >= MEMORY_SIZE THEN Err(WordReadOutOfBounds(addr))
    ELSE Ok(mem.ram[addr] * 256 + mem.ram[addr + 1])

\* write_word that stores the low byte at addr and the high byte at addr + 1
write_word_little_endian(mem, addr, value) ==
    IF addr + 1 >= MEMORY_SIZE
    THEN [memory |-> mem, res |-> Err(WordWriteOutOfBounds(addr))]
    ELSE LET first == write_byte(mem, addr, value % 256)
         IN  IF ~first.res.ok THEN first
             ELSE write_byte(first.memory, addr + 1, value \div 256)

\* write_word that writes its second byte before its first
write_word_low_first(mem, addr, value) ==
    IF addr + 1 >= MEMORY_SIZE
    THEN [memory |-> mem, res |-> Err(WordWriteOutOfBounds(addr))]
    ELSE LET first == write_byte(mem, addr + 1, value % 256)
         IN  IF ~first.res.ok THEN first
             ELSE write_byte(first.memory, addr, value \div 256)

write_word(mem, addr, value) ==
    IF addr + 1 >= MEMORY_SIZE
    THEN [memory |-> mem, res |-> Err(WordWriteOutOfBounds(addr))]
    ELSE LET first == write_byte(mem, addr, value \div 256)
         IN  IF ~first.res.ok THEN first
             ELSE write_byte(first.memory, addr + 1, value % 256)

\* load_rom that refuses a payload of exactly MAX_ROM_SIZE bytes
load_rom_off_by_one(mem, rom_data) ==
    IF Len(rom_data) >= MAX_ROM_SIZE
    THEN [memory |-> mem, res |-> Err(RomTooLarge(Len(rom_data)))]
    ELSE [memory |->
            [mem EXCEPT !.ram =
                [a \in 0..(MEMORY_SIZE - 1) |->
                    IF a >= PROGRAM_START_ADDR /\ a < PROGRAM_START_ADDR + Len(rom_data)
                    THEN rom_data[a - PROGRAM_START_ADDR + 1]
                    ELSE mem.ram[a]]],
          res |-> Ok(TRUE)]

\* load_rom that copies the payload to the start of the memory
load_rom_from_zero(mem, rom_data) ==
    IF Len(rom_data) > MAX_ROM_SIZE
    THEN [memory |-> mem, res |-> Err(RomTooLarge(Len(rom_data)))]
    ELSE [memory |->
            [mem EXCEPT !.ram =
                [a \in 0..(MEMORY_SIZE - 1) |->
                    IF a < Len(rom_data) THEN rom_data[a + 1] ELSE mem.ram[a]]],
          res |-> Ok(TRUE)]

\* rom_data is a sequence of bytes
load_rom(mem, rom_data) ==
    IF Len(rom_data) > MAX_ROM_SIZE
    THEN [memory |-> mem, res |-> Err(RomTooLarge(Len(rom_data)))]
    ELSE [memory |->
            [mem EXCEPT !.ram =
                [a \in 0..(MEMORY_SIZE - 1) |->
                    IF a >= PROGRAM_START_ADDR /\ a < PROGRAM_START_ADDR + Len(rom_data)
                    THEN rom_data[a - PROGRAM_START_ADDR + 1]
                    ELSE mem.ram[a]]],
          res |-> Ok(TRUE)]

get_font_sprite_addr(mem, digit) ==
    IF digit > 15 THEN Err(InvalidFontDigit(digit))
    ELSE Ok(FONT_START_ADDR + digit * FONT_HEIGHT)

set_write_protection(mem, enabled) ==
    [mem EXCEPT !.write_protection_enabled = enabled]

\* reset that reloads the font and clears nothing
MemoryReset_no_clear(mem) ==
    load_font_data(mem)

MemoryReset(mem) ==
    load_font_data([mem EXCEPT !.ram = [a \in 0..(MEMORY_SIZE - 1) |-> 0]])

(***************************************************************************)
(* Display (src/src/display.rs).                                           *)
(***************************************************************************)
EmptySpriteData == [kind |-> "EmptySpriteData"]
SpriteTooTall(height) ==
    [kind |-> "SpriteTooTall", height |-> height, max_height |-> MAX_SPRITE_HEIGHT]

BlankFramebuffer ==
    [row \in 0..(DISPLAY_HEIGHT - 1) |-> [col \in 0..(DISPLAY_WIDTH - 1) |-> FALSE]]

DisplayNew == [framebuffer |-> BlankFramebuffer]

clear(disp) == [disp EXCEPT !.framebuffer = BlankFramebuffer]

RECURSIVE DrawRow_sets(_, _, _, _, _, _)
\* DrawRow that turns the pixels of the sprite on instead of toggling them
DrawRow_sets(fb, collision, x, screen_y, sprite_byte, bit_pos) ==
    IF bit_pos = 8 THEN [framebuffer |-> fb, collision |-> collision]
    ELSE LET screen_x == (x + bit_pos) % DISPLAY_WIDTH
             sprite_pixel == Bit(sprite_byte, 7 - bit_pos) = 1
             old_pixel == fb[screen_y][screen_x]
             new_pixel == TRUE
         IN  IF sprite_pixel
             THEN DrawRow_sets([fb EXCEPT ![screen_y][screen_x] = new_pixel],
                               collision \/ (old_pixel /\ ~new_pixel),
                               x, screen_y, sprite_byte, bit_pos + 1)
             ELSE DrawRow_sets(fb, collision, x, screen_y, sprite_byte, bit_pos + 1)

RECURSIVE DrawRow_clipped(_, _, _, _, _, _)
\* DrawRow that clips the sprite at the right edge instead of wrapping it
DrawRow_clipped(fb, collision, x, screen_y, sprite_byte, bit_pos) ==
    IF bit_pos = 8 THEN [framebuffer |-> fb, collision |-> collision]
    ELSE LET screen_x == (x % DISPLAY_WIDTH) + bit_pos
             sprite_pixel == Bit(sprite_byte, 7 - bit_pos) = 1 /\ screen_x < DISPLAY_WIDTH
             old_pixel == fb[screen_y][screen_x]
             new_pixel == ~old_pixel
         IN  IF sprite_pixel
             THEN DrawRow_clipped([fb EXCEPT ![screen_y][screen_x] = new_pixel],
                                  collision \/ (old_pixel /\ ~new_pixel),
                                  x, screen_y, sprite_byte, bit_pos + 1)
             ELSE DrawRow_clipped(fb, collision, x, screen_y, sprite_byte, bit_pos + 1)

RECURSIVE DrawRow(_, _, _, _, _, _)
\* The inner loop of draw_sprite, `for bit_pos in 0..8`, from bit_pos on: fb and
\* collision are the loop's running values.
DrawRow(fb, collision, x, screen_y, sprite_byte, bit_pos) ==
    IF bit_pos = 8 THEN [framebuffer |-> fb, collision |-> collision]
    ELSE LET screen_x == (x + bit_pos) % DISPLAY_WIDTH
             sprite_pixel == Bit(sprite_byte, 7 - bit_pos) = 1
             old_pixel == fb[screen_y][screen_x]
             new_pixel == ~old_pixel
         IN  IF sprite_pixel
             THEN DrawRow([fb EXCEPT ![screen_y][screen_x] = new_pixel],
                          collision \/ (old_pixel /\ ~new_pixel),
                          x, screen_y, sprite_byte, bit_pos + 1)
             ELSE DrawRow(fb, collision, x, screen_y, sprite_byte, bit_pos + 1)

RECURSIVE DrawLoop_row_collision(_, _, _, _, _, _)
\* DrawLoop whose collision flag starts anew with every row
DrawLoop_row_collision(fb, collision, x, y, sprite_data, row_offset) ==
    IF row_offset = Len(sprite_data) THEN [framebuffer |-> fb, collision |-> collision]
    ELSE LET screen_y == (y + row_offset) % DISPLAY_HEIGHT
             row == DrawRow(fb, FALSE, x, screen_y, sprite_data[row_offset + 1], 0)
         IN  IF row.collision
             THEN DrawLoop_row_collision(row.framebuffer, TRUE, x, y, sprite_data,
                                         row_offset + 1)
             ELSE DrawLoop_row_collision(row.framebuffer, FALSE, x, y, sprite_data,
                                         row_offset + 1)

RECURSIVE DrawLoop(_, _, _, _, _, _)
\* The outer loop of draw_sprite, over the rows of the sprite, from row
\* row_offset on.
DrawLoop(fb, collision, x, y, sprite_data, row_offset) ==
    IF row_offset = Len(sprite_data) THEN [framebuffer |-> fb, collision |-> collision]
    ELSE LET screen_y == (y + row_offset) % DISPLAY_HEIGHT
             row == DrawRow(fb, collision, x, screen_y, sprite_data[row_offset + 1], 0)
         \* (the test of row.collision has TLC evaluate each row before the next)
         IN  IF row.collision
             THEN DrawLoop(row.framebuffer, TRUE, x, y, sprite_data, row_offset + 1)
             ELSE DrawLoop(row.framebuffer, FALSE, x, y, sprite_data, row_offset + 1)

\* draw_sprite without the check for empty sprite data
draw_sprite_no_empty_check(disp, x, y, sprite_data) ==
    IF Len(sprite_data) > MAX_SPRITE_HEIGHT
    THEN [display |-> disp, res |-> Err(SpriteTooTall(Len(sprite_data)))]
    ELSE LET drawn == DrawLoop(disp.framebuffer, FALSE, x, y, sprite_data, 0)
         IN  [display |-> [disp EXCEPT !.framebuffer = drawn.framebuffer],
              res |-> Ok(drawn.collision)]

\* the returned record holds the display the call leaves behind and its Result
draw_sprite(disp, x, y, sprite_data) ==
    IF Len(sprite_data) = 0 THEN [display |-> disp, res |-> Err(EmptySpriteData)]
    ELSE IF Len(sprite_data) > MAX_SPRITE_HEIGHT
    THEN [display |-> disp, res |-> Err(SpriteTooTall(Len(sprite_data)))]
    ELSE LET drawn == DrawLoop(disp.framebuffer, FALSE, x, y, sprite_data, 0)
         IN  [display |-> [disp EXCEPT !.framebuffer = drawn.framebuffer],
              res |-> Ok(drawn.collision)]

get_pixel(disp, x, y) ==
    IF x >= DISPLAY_WIDTH \/ y >= DISPLAY_HEIGHT THEN FALSE
    ELSE disp.framebuffer[y][x]

set_pixel(disp, x, y, on) ==
    IF x < DISPLAY_WIDTH /\ y < DISPLAY_HEIGHT
    THEN [disp EXCEPT !.framebuffer[y][x] = on]
    ELSE disp

(***************************************************************************)
(* Input (src/src/input.rs): the key states and the queue of key presses   *)
(* of MockInput, the input the CPU's tests drive it with.                  *)
(***************************************************************************)
InvalidKey(key) == [kind |-> "InvalidKey", key |-> key]

InputNew == [key_states |-> [k \in 0..(NUM_KEYS - 1) |-> FALSE], key_queue |-> <<>>]

\* MockInput::press_key_u8
press_key(inp, key) ==
    IF key >= NUM_KEYS THEN [input |-> inp, res |-> Err(InvalidKey(key))]
    ELSE [input |-> [key_states |-> [inp.key_states EXCEPT ![key] = TRUE],
                     key_queue |-> Append(inp.key_queue, key)],
          res |-> Ok(TRUE)]

\* MockInput::release_key_u8
release_key(inp, key) ==
    IF key >= NUM_KEYS THEN [input |-> inp, res |-> Err(InvalidKey(key))]
    ELSE [input |-> [inp EXCEPT !.key_states[key] = FALSE], res |-> Ok(TRUE)]

\* is_key_pressed that knows the keys 0..7 only
is_key_pressed_low_keys(inp, key) ==
    IF key >= 8 THEN Err(InvalidKey(key))
    ELSE Ok(inp.key_states[key])

\* InputBus::is_key_pressed_u8: the key test the CPU reaches as is_key_pressed
is_key_pressed(inp, key) ==
    IF key >= NUM_KEYS THEN Err(InvalidKey(key))
    ELSE Ok(inp.key_states[key])

\* The non-blocking "try take a pressed key": the last queued press, if any,
\* is taken out of the queue; the key states are left as they are.
try_get_key_press(inp) ==
    IF inp.key_queue = <<>> THEN [input |-> inp, key |-> None]
    ELSE [input |-> [inp EXCEPT !.key_queue = SubSeq(inp.key_queue, 1, Len(inp.key_queue) - 1)],
          key |-> Some(inp.key_queue[Len(inp.key_queue)])]

(***************************************************************************)
(* CPU (src/src/cpu.rs).                                                   *)
(***************************************************************************)
\* CpuError: the variants that wrap a component's error (#[from]) ...
CpuMemory(e) == [kind |-> "Memory", source |-> e]
CpuDecode(e) == [kind |-> "Decode", source |-> e]
CpuDisplay(e) == [kind |-> "Display", source |-> e]
CpuInput(e) == [kind |-> "Input", source |-> e]
\* ... and the CPU's own
StackOverflow == [kind |-> "StackOverflow", max_depth |-> STACK_SIZE]
StackUnderflow == [kind |-> "StackUnderflow"]
InvalidProgramCounter(pc) == [kind |-> "InvalidProgramCounter", pc |-> pc]
InstructionExecutionFailed(instruction, addr, source) ==
    [kind |-> "InstructionExecutionFailed", instruction |-> instruction,
     addr |-> addr, source |-> source]
\* not a CpuError: a panic (an index out of bounds; an arithmetic overflow in a
\* build with overflow checks) ends the program
Panic(msg) == [kind |-> "Panic", msg |-> msg]
Panicked(res) == ~res.ok /\ res.err.kind = "Panic"

\* CpuState
Running == [tag |-> "Running"]
WaitingForKey(vx) == [tag |-> "WaitingForKey", vx |-> vx]

CpuNew ==
    [v |-> [r \in 0..(NUM_REGISTERS - 1) |-> 0],
     i |-> 0,
     pc |-> PROGRAM_START_ADDR,
     sp |-> 0,
     stack |-> [s \in 0..(STACK_SIZE - 1) |-> 0],
     delay_timer |-> 0,
     sound_timer |-> 0,
     state |-> Running]

\* reset that leaves the call stack's entries
CpuReset_keeps_stack(c) ==
    [c EXCEPT !.v = [r \in 0..(NUM_REGISTERS - 1) |-> 0],
              !.i = 0,
              !.pc = PROGRAM_START_ADDR,
              !.sp = 0,
              !.delay_timer = 0,
              !.sound_timer = 0,
              !.state = Running]

CpuReset(c) ==
    [c EXCEPT !.v = [r \in 0..(NUM_REGISTERS - 1) |-> 0],
              !.i = 0,
              !.pc = PROGRAM_START_ADDR,
              !.sp = 0,
              !.stack = [s \in 0..(STACK_SIZE - 1) |-> 0],
              !.delay_timer = 0,
              !.sound_timer = 0,
              !.state = Running]

\* fetch_instruction that leaves the advance of PC to the execution
fetch_instruction_no_advance(c, mem) ==
    IF c.pc >= MEMORY_SIZE - 1 THEN [cpu |-> c, res |-> Err(InvalidProgramCounter(c.pc))]
    ELSE [cpu |-> c, res |-> Ok(mem.ram[c.pc] * 256 + mem.ram[c.pc + 1])]

\* fetch_instruction that checks PC alone, not PC + 1
fetch_instruction_off_by_one(c, mem) ==
    IF c.pc >= MEMORY_SIZE THEN [cpu |-> c, res |-> Err(InvalidProgramCounter(c.pc))]
    ELSE LET high_byte == read_byte(mem, c.pc)
             low_byte == read_byte(mem, c.pc + 1)
         IN  IF ~high_byte.ok THEN [cpu |-> c, res |-> Err(CpuMemory(high_byte.err))]
             ELSE IF ~low_byte.ok THEN [cpu |-> c, res |-> Err(CpuMemory(low_byte.err))]
             ELSE [cpu |-> [c EXCEPT !.pc = c.pc + 2],
                   res |-> Ok(high_byte.val * 256 + low_byte.val)]

\* the returned record holds the CPU the call leaves behind and its Result
\* fetch_instruction that advances PC before it checks it
fetch_instruction_late_check(c, mem) ==
    LET word == read_word(mem, c.pc)
    IN  IF c.pc >= MEMORY_SIZE - 1
        THEN [cpu |-> [c EXCEPT !.pc = c.pc + 2], res |-> Err(InvalidProgramCounter(c.pc))]
        ELSE [cpu |-> [c EXCEPT !.pc = c.pc + 2], res |-> word]

fetch_instruction(c, mem) ==
    IF c.pc >= MEMORY_SIZE - 1 THEN [cpu |-> c, res |-> Err(InvalidProgramCounter(c.pc))]
    ELSE LET high_byte == read_byte(mem, c.pc)
             low_byte == read_byte(mem, c.pc + 1)
         IN  IF ~high_byte.ok THEN [cpu |-> c, res |-> Err(CpuMemory(high_byte.err))]
             ELSE IF ~low_byte.ok THEN [cpu |-> c, res |-> Err(CpuMemory(low_byte.err))]
             ELSE [cpu |-> [c EXCEPT !.pc = c.pc + 2],
                   res |-> Ok(high_byte.val * 256 + low_byte.val)]

\* self.stack[index] is a bounds-checked access of an array of STACK_SIZE entries
StackIndexOk(index) == index \in 0..(STACK_SIZE - 1)

\* call_subroutine that pushes the address of the call, not of its successor
call_subroutine_push_call_addr(c, addr) ==
    IF c.sp >= STACK_SIZE THEN [cpu |-> c, res |-> Err(StackOverflow)]
    ELSE [cpu |-> [c EXCEPT !.stack[c.sp] = c.pc - 2, !.sp = c.sp + 1, !.pc = addr],
          res |-> Ok(TRUE)]

\* call_subroutine whose overflow check lets a 17th call through
call_subroutine_off_by_one(c, addr) ==
    IF c.sp > STACK_SIZE THEN [cpu |-> c, res |-> Err(StackOverflow)]
    ELSE IF ~StackIndexOk(c.sp) THEN [cpu |-> c, res |-> Err(Panic("index out of bounds"))]
    ELSE [cpu |-> [c EXCEPT !.stack[c.sp] = c.pc, !.sp = c.sp + 1, !.pc = addr],
          res |-> Ok(TRUE)]

\* call_subroutine that also records the return address in the stack's entry 0
call_subroutine_clobbers_bottom(c, addr) ==
    IF c.sp >= STACK_SIZE THEN [cpu |-> c, res |-> Err(StackOverflow)]
    ELSE [cpu |-> [c EXCEPT !.stack = [[c.stack EXCEPT ![0] = c.pc] EXCEPT ![c.sp] = c.pc],
                            !.sp = c.sp + 1,
                            !.pc = addr],
          res |-> Ok(TRUE)]

call_subroutine(c, addr) ==
    IF c.sp >= STACK_SIZE THEN [cpu |-> c, res |-> Err(StackOverflow)]
    ELSE IF ~StackIndexOk(c.sp) THEN [cpu |-> c, res |-> Err(Panic("index out of bounds"))]
    ELSE [cpu |-> [c EXCEPT !.stack[c.sp] = c.pc, !.sp = c.sp + 1, !.pc = addr],
          res |-> Ok(TRUE)]

\* return_from_subroutine without the check for an empty stack, in a build
\* whose u8 subtraction wraps
return_from_subroutine_unchecked(c) ==
    LET sp == (c.sp - 1) % 256
    IN  IF ~StackIndexOk(sp)
        THEN [cpu |-> [c EXCEPT !.sp = sp], res |-> Err(Panic("index out of bounds"))]
        ELSE [cpu |-> [c EXCEPT !.sp = sp, !.pc = c.stack[sp]], res |-> Ok(TRUE)]

\* return_from_subroutine that loads PC from the stack before it checks sp
return_from_subroutine_pops_first(c) ==
    IF c.sp = 0 THEN [cpu |-> [c EXCEPT !.pc = c.stack[0]], res |-> Err(StackUnderflow)]
    ELSE [cpu |-> [c EXCEPT !.sp = c.sp - 1, !.pc = c.stack[c.sp - 1]],
          res |-> Ok(TRUE)]

return_from_subroutine(c) ==
    IF c.sp = 0 THEN [cpu |-> c, res |-> Err(StackUnderflow)]
    ELSE IF ~StackIndexOk(c.sp - 1)
    THEN [cpu |-> [c EXCEPT !.sp = c.sp - 1], res |-> Err(Panic("index out of bounds"))]
    ELSE [cpu |-> [c EXCEPT !.sp = c.sp - 1, !.pc = c.stack[c.sp - 1]],
          res |-> Ok(TRUE)]

\* update_timers that decrements a timer that is already 0
update_timers_wrapping(c) ==
    [c EXCEPT !.delay_timer = (c.delay_timer - 1) % 256,
              !.sound_timer = (c.sound_timer - 1) % 256]

update_timers(c) ==
    LET c1 == IF c.delay_timer > 0 THEN [c EXCEPT !.delay_timer = c.delay_timer - 1] ELSE c
    IN  IF c1.sound_timer > 0 THEN [c1 EXCEPT !.sound_timer = c1.sound_timer - 1] ELSE c1

should_beep(c) == c.sound_timer > 0

RECURSIVE ReadSprite_same_byte(_, _, _, _, _, _)
\* ReadSprite that reads the byte at I for every row
ReadSprite_same_byte(mem, base, n, k, acc, overflow_checks) ==
    IF k = n THEN Ok(acc)
    ELSE LET byte == read_byte(mem, base % 65536)
         IN  IF ~byte.ok THEN Err(CpuMemory(byte.err))
             ELSE ReadSprite_same_byte(mem, base, n, k + 1, Append(acc, byte.val),
                                       overflow_checks)

RECURSIVE ReadSprite(_, _, _, _, _, _)
\* The read loop of Instruction::Draw: sprite_data so far is acc, the next byte
\* is number k of n.  self.i + k is a u16 addition.
ReadSprite(mem, base, n, k, acc, overflow_checks) ==
    IF k = n THEN Ok(acc)
    ELSE IF base + k > 65535 /\ overflow_checks THEN Err(Panic("attempt to add with overflow"))
    ELSE LET byte == read_byte(mem, (base + k) % 65536)
         IN  IF ~byte.ok THEN Err(CpuMemory(byte.err))
             ELSE ReadSprite(mem, base, n, k + 1, Append(acc, byte.val), overflow_checks)

\* what an instruction leaves behind and returns
Outcome(c, mem, disp, inp, res) ==
    [cpu |-> c, memory |-> mem, display |-> disp, input |-> inp, res |-> res]

\* wait_key that waits by running the instruction again: PC is set back
wait_key_rewind(c, vx, mem, disp, inp) ==
    LET taken == try_get_key_press(inp)
    IN  IF taken.key.some
        THEN Outcome([c EXCEPT !.v[vx] = taken.key.val], mem, disp, taken.input, Ok(TRUE))
        ELSE Outcome([c EXCEPT !.pc = c.pc - 2], mem, disp, taken.input, Ok(TRUE))

\* wait_key that enters the wait state whether or not it found a key
wait_key_always_waits(c, vx, mem, disp, inp) ==
    LET taken == try_get_key_press(inp)
    IN  IF taken.key.some
        THEN Outcome([c EXCEPT !.v[vx] = taken.key.val, !.state = WaitingForKey(vx)],
                     mem, disp, taken.input, Ok(TRUE))
        ELSE Outcome([c EXCEPT !.state = WaitingForKey(vx)], mem, disp, taken.input, Ok(TRUE))

\* the Instruction::WaitKey { vx } arm of execute_instruction
wait_key(c, vx, mem, disp, inp) ==
    LET taken == try_get_key_press(inp)
    IN  IF taken.key.some
        THEN Outcome([c EXCEPT !.v[vx] = taken.key.val], mem, disp, taken.input, Ok(TRUE))
        ELSE Outcome([c EXCEPT !.state = WaitingForKey(vx)], mem, disp, taken.input, Ok(TRUE))

\* execute_arithmetic that writes VF before the result of an addition or a
\* subtraction
execute_arithmetic_flag_first(c, ins) ==
    LET flagged(value, flag) ==
            [c EXCEPT !.v = [[c.v EXCEPT ![15] = flag] EXCEPT ![ins.vx] = value]]
    IN  CASE ins.op = "AddReg" ->
               LET sum == c.v[ins.vx] + c.v[ins.vy]
               IN  flagged(sum % 256, IF sum > 255 THEN 1 ELSE 0)
          [] ins.op = "SubReg" ->
               LET diff == c.v[ins.vx] - c.v[ins.vy]
               IN  flagged(diff % 256, IF diff < 0 THEN 0 ELSE 1)
          [] ins.op = "SubnReg" ->
               LET diff == c.v[ins.vy] - c.v[ins.vx]
               IN  flagged(diff % 256, IF diff < 0 THEN 0 ELSE 1)
          [] ins.op = "OrReg" -> [c EXCEPT !.v[ins.vx] = BitOr(c.v[ins.vx], c.v[ins.vy])]
          [] ins.op = "AndReg" -> [c EXCEPT !.v[ins.vx] = BitAnd(c.v[ins.vx], c.v[ins.vy])]
          [] ins.op = "XorReg" -> [c EXCEPT !.v[ins.vx] = BitXor(c.v[ins.vx], c.v[ins.vy])]
          [] ins.op = "ShrReg" ->
               LET v1 == [c.v EXCEPT ![15] = c.v[ins.vx] % 2]
               IN  [c EXCEPT !.v = [v1 EXCEPT ![ins.vx] = v1[ins.vx] \div 2]]
          [] ins.op = "ShlReg" ->
               LET v1 == [c.v EXCEPT ![15] = BitAnd(c.v[ins.vx], 128) \div 128]
               IN  [c EXCEPT !.v = [v1 EXCEPT ![ins.vx] = (v1[ins.vx] * 2) % 256]]

\* execute_arithmetic whose shifts write the result before VF
execute_arithmetic_shift_flag_last(c, ins) ==
    LET flagged(value, flag) ==
            [c EXCEPT !.v = [[c.v EXCEPT ![ins.vx] = value] EXCEPT ![15] = flag]]
    IN  CASE ins.op = "AddReg" ->
               LET sum == c.v[ins.vx] + c.v[ins.vy]
               IN  flagged(sum % 256, IF sum > 255 THEN 1 ELSE 0)
          [] ins.op = "SubReg" ->
               LET diff == c.v[ins.vx] - c.v[ins.vy]
               IN  flagged(diff % 256, IF diff < 0 THEN 0 ELSE 1)
          [] ins.op = "SubnReg" ->
               LET diff == c.v[ins.vy] - c.v[ins.vx]
               IN  flagged(diff % 256, IF diff < 0 THEN 0 ELSE 1)
          [] ins.op = "OrReg" -> [c EXCEPT !.v[ins.vx] = BitOr(c.v[ins.vx], c.v[ins.vy])]
          [] ins.op = "AndReg" -> [c EXCEPT !.v[ins.vx] = BitAnd(c.v[ins.vx], c.v[ins.vy])]
          [] ins.op = "XorReg" -> [c EXCEPT !.v[ins.vx] = BitXor(c.v[ins.vx], c.v[ins.vy])]
          [] ins.op = "ShrReg" -> flagged(c.v[ins.vx] \div 2, c.v[ins.vx] % 2)
          [] ins.op = "ShlReg" ->
               flagged((c.v[ins.vx] * 2) % 256, BitAnd(c.v[ins.vx], 128) \div 128)

\* the CPU after one of the arms AddReg .. ShlReg of execute_instruction
execute_arithmetic(c, ins) ==
    LET flagged(value, flag) ==
            [c EXCEPT !.v = [[c.v EXCEPT ![ins.vx] = value] EXCEPT ![15] = flag]]
    IN  CASE ins.op = "AddReg" ->
               LET sum == c.v[ins.vx] + c.v[ins.vy]
               IN  flagged(sum % 256, IF sum > 255 THEN 1 ELSE 0)
          [] ins.op = "SubReg" ->
               LET diff == c.v[ins.vx] - c.v[ins.vy]
               IN  flagged(diff % 256, IF diff < 0 THEN 0 ELSE 1)
          [] ins.op = "SubnReg" ->
               LET diff == c.v[ins.vy] - c.v[ins.vx]
               IN  flagged(diff % 256, IF diff < 0 THEN 0 ELSE 1)
          [] ins.op = "OrReg" -> [c EXCEPT !.v[ins.vx] = BitOr(c.v[ins.vx], c.v[ins.vy])]
          [] ins.op = "AndReg" -> [c EXCEPT !.v[ins.vx] = BitAnd(c.v[ins.vx], c.v[ins.vy])]
          [] ins.op = "XorReg" -> [c EXCEPT !.v[ins.vx] = BitXor(c.v[ins.vx], c.v[ins.vy])]
          [] ins.op = "ShrReg" ->
               LET v1 == [c.v EXCEPT ![15] = c.v[ins.vx] % 2]
               IN  [c EXCEPT !.v = [v1 EXCEPT ![ins.vx] = v1[ins.vx] \div 2]]
          [] ins.op = "ShlReg" ->
               LET v1 == [c.v EXCEPT ![15] = BitAnd(c.v[ins.vx], 128) \div 128]
               IN  [c EXCEPT !.v = [v1 EXCEPT ![ins.vx] = (v1[ins.vx] * 2) % 256]]

\* Decode and execute an instruction; c is the CPU after the fetch.
\* overflow_checks tells whether the build panics on integer overflow (a debug
\* build) or wraps (a release build).
execute_instruction(c, opcode, mem, disp, inp, overflow_checks) ==
    LET decoded == decode_opcode(opcode)
        ins == decoded.val
        done(c2) == Outcome(c2, mem, disp, inp, Ok(TRUE))
        fail(e) == Outcome(c, mem, disp, inp, Err(e))
        sub(r) == Outcome(r.cpu, mem, disp, inp, r.res)
        skip_if(cond) == done(IF cond THEN [c EXCEPT !.pc = c.pc + 2] ELSE c)
    IN  IF ~decoded.ok THEN fail(CpuDecode(decoded.err))
        ELSE CASE ins.op = "Cls" -> Outcome(c, mem, clear(disp), inp, Ok(TRUE))
               [] ins.op = "Ret" -> sub(return_from_subroutine(c))
               [] ins.op = "Sys" -> done(c)
               [] ins.op = "Jump" -> done([c EXCEPT !.pc = ins.addr])
               [] ins.op = "Call" -> sub(call_subroutine(c, ins.addr))
               [] ins.op = "JumpV0" -> done([c EXCEPT !.pc = ins.addr + c.v[0]])
               [] ins.op = "SkipEqImm" -> skip_if(c.v[ins.vx] = ins.value)
               [] ins.op = "SkipNeImm" -> skip_if(c.v[ins.vx] # ins.value)
               [] ins.op = "SkipEqReg" -> skip_if(c.v[ins.vx] = c.v[ins.vy])
               [] ins.op = "SkipNeReg" -> skip_if(c.v[ins.vx] # c.v[ins.vy])
               [] ins.op = "LoadImm" -> done([c EXCEPT !.v[ins.vx] = ins.value])
               [] ins.op = "LoadReg" -> done([c EXCEPT !.v[ins.vx] = c.v[ins.vy]])
               [] ins.op = "SetIndex" -> done([c EXCEPT !.i = ins.addr])
               [] ins.op = "AddImm" ->
                    done([c EXCEPT !.v[ins.vx] = (c.v[ins.vx] + ins.value) % 256])
               [] ins.op \in {"AddReg", "SubReg", "SubnReg", "OrReg", "AndReg", "XorReg",
                               "ShrReg", "ShlReg"} ->
                    done(execute_arithmetic(c, ins))
               [] ins.op = "Draw" ->
                    LET x == c.v[ins.vx]
                        y == c.v[ins.vy]
                        sprite_data == ReadSprite(mem, c.i, ins.n, 0, <<>>, overflow_checks)
                        drawn == draw_sprite(disp, x, y, sprite_data.val)
                    IN  IF ~sprite_data.ok THEN fail(sprite_data.err)
                        ELSE IF ~drawn.res.ok THEN fail(CpuDisplay(drawn.res.err))
                        ELSE Outcome([c EXCEPT !.v[15] = IF drawn.res.val THEN 1 ELSE 0],
                                     mem, drawn.display, inp, Ok(TRUE))
               [] ins.op = "SkipKeyPressed" ->
                    LET pressed == is_key_pressed(inp, c.v[ins.vx] % 16)
                    IN  IF ~pressed.ok THEN fail(CpuInput(pressed.err))
                        ELSE skip_if(pressed.val)
               [] ins.op = "SkipKeyNotPressed" ->
                    LET pressed == is_key_pressed(inp, c.v[ins.vx] % 16)
                    IN  IF ~pressed.ok THEN fail(CpuInput(pressed.err))
                        ELSE skip_if(~pressed.val)
               [] ins.op = "Random" ->
                    done([c EXCEPT !.v[ins.vx] = BitAnd(66, ins.mask)])
               [] ins.op = "LoadDelayTimer" -> done([c EXCEPT !.v[ins.vx] = c.delay_timer])
               [] ins.op = "SetDelayTimer" -> done([c EXCEPT !.delay_timer = c.v[ins.vx]])
               [] ins.op = "SetSoundTimer" -> done([c EXCEPT !.sound_timer = c.v[ins.vx]])
               [] ins.op = "WaitKey" -> wait_key(c, ins.vx, mem, disp, inp)
               [] ins.op = "AddIndex" ->
                    LET sum == c.i + c.v[ins.vx]
                    IN  IF sum > 65535 /\ overflow_checks
                        THEN fail(Panic("attempt to add with overflow"))
                        ELSE done([c EXCEPT !.i = sum % 65536])
               [] ins.op = "LoadFont" ->
                    done([c EXCEPT !.i = FONT_START_ADDR + c.v[ins.vx] * 5])
               [] ins.op = "StoreBcd" -> done(c)
               [] ins.op = "StoreRegisters" -> done(c)
               [] ins.op = "LoadRegisters" -> done(c)

\* wrap_error that records PC as it is after the fetch
wrap_error_next_addr(res, instruction, instruction_addr) ==
    IF res.ok \/ Panicked(res) THEN res
    ELSE Err(InstructionExecutionFailed(instruction, instruction_addr + 2, res.err))

\* the map_err of execute_cycle: an error of execute_instruction is wrapped with
\* the opcode and the address it was fetched from (a panic is no error value)
wrap_error(res, instruction, instruction_addr) ==
    IF res.ok \/ Panicked(res) THEN res
    ELSE Err(InstructionExecutionFailed(instruction, instruction_addr, res.err))

\* poll_key that counts the arrival of the key as an instruction: PC advances
poll_key_advance(c, vx, mem, disp, inp) ==
    LET taken == try_get_key_press(inp)
    IN  IF taken.key.some
        THEN Outcome([c EXCEPT !.v[vx] = taken.key.val, !.state = Running, !.pc = c.pc + 2],
                     mem, disp, taken.input, Ok(TRUE))
        ELSE Outcome(c, mem, disp, taken.input, Ok(TRUE))

\* poll_key that never looks at the input
poll_key_ignores_input(c, vx, mem, disp, inp) ==
    Outcome(c, mem, disp, inp, Ok(TRUE))

\* the CpuState::WaitingForKey { vx } arm of execute_cycle
poll_key(c, vx, mem, disp, inp) ==
    LET taken == try_get_key_press(inp)
    IN  IF taken.key.some
        THEN Outcome([c EXCEPT !.v[vx] = taken.key.val, !.state = Running],
                     mem, disp, taken.input, Ok(TRUE))
        ELSE Outcome(c, mem, disp, taken.input, Ok(TRUE))

execute_cycle(c, mem, disp, inp, overflow_checks) ==
    IF c.state.tag = "Running"
    THEN LET instruction_addr == c.pc
             fetched == fetch_instruction(c, mem)
             executed == execute_instruction(fetched.cpu, fetched.res.val, mem, disp, inp,
                                             overflow_checks)
         IN  IF ~fetched.res.ok THEN Outcome(fetched.cpu, mem, disp, inp, fetched.res)
             ELSE [executed EXCEPT
                     !.res = wrap_error(executed.res, fetched.res.val, instruction_addr)]
    ELSE poll_key(c, c.state.vx, mem, disp, inp)

(***************************************************************************)
(* The machine: a CPU, a memory with a ROM loaded, a display and an input, *)
(* driven by calls of execute_cycle, update_timers and reset and by key    *)
(* presses and releases.                                                   *)
(***************************************************************************)
\* a ROM image: the big-endian bytes of a sequence of opcodes
RomBytes(words) ==
    [k \in 1..(2 * Len(words)) |->
        IF k % 2 = 1 THEN words[(k + 1) \div 2] \div 256 ELSE words[k \div 2] % 256]

\* `count` opcodes 0x0000
Zeros(count) == [k \in 1..count |-> 0]

\* one opcode of every instruction and of every family's unknown patterns
SampleOpcodes ==
    { \H00E0, \H00EE, \H0123, \H1206, \H2206, \HB204,
      \H3000, \H3001, \H4000, \H4001, \H5010, \H5011, \H9010, \H9011,
      \H6A7F, \H7AFF, \H8010, \H8011, \H8012, \H8013, \H8014, \H8015,
      \H8016, \H8017, \H801E, \H8018, \H80FF, \HA123, \HC0FF,
      \HD011, \HD010, \HE09E, \HE0A1, \HE000, \HE19F,
      \HF007, \HF00A, \HF015, \HF018, \HF01E, \HF029, \HF033, \HF055, \HF065,
      \HF123, \HFF00, \HFFFF }

\* programs that drive the machine into the cases of interest
Programs ==
    { <<\H00E0, \H6342, \HA300>>,                     \* cls; V3 = 0x42; I = 0x300
      <<\HF10A, \HF20A>>,                             \* wait for a key, twice
      <<\H60FF, \HBFFF>>,                             \* jump to 0xFFF + 0xFF
      <<\H1FFE>>,                                     \* jump to the last word
      <<\H1FFF>>,                                     \* jump to the last byte
      <<\HAFFF, \HD012>>,                             \* sprite read past the memory
      <<\H6003, \HF015, \H6102, \HF118, \HF20A>>,     \* set both timers, then wait
      <<\H6005, \HF029, \HD005, \HD005>>,             \* draw glyph 5 twice
      <<\H6005, \HE09E, \HE0A1, \H1202>>,             \* key skips in a loop
      <<\H1FFE>> \o Zeros(1790) \o <<\H3000>> }        \* a skip in the last word

\* programs that call and return
CallPrograms ==
    { <<\H2300>> \o Zeros(127) \o <<\H00EE>>,         \* call 0x300; at 0x300: ret
      <<\H2200>>,                                     \* call 0x200 for ever
      <<\H2202>>,                                     \* call 0x202 and run on
      <<\H2204, \H0000, \H2208, \H0000, \H00EE, \H00EE>>, \* nested calls and returns
      <<\H00EE>>,                                     \* return with nothing to return to
      <<\H2204, \H1200, \H00EE>>,                     \* call and return in a loop
      <<\H6A03, \HFA15, \HFA18, \H2206>>,             \* set the timers, then call for ever
      [k \in 1..16 |-> \H2200 + 2 * k] \o <<\HF00A>>,  \* 16 nested calls, then wait for a key
      \* 16 nested calls, each followed by the return the unwinding comes back to
      [k \in 1..33 |-> IF k % 2 = 1 /\ k < 33 THEN \H2200 + 2 * (k + 1) ELSE \H00EE] }

Roms == {RomBytes(words) : words \in Programs \cup {<<opcode>> : opcode \in SampleOpcodes}}

CallRoms == {RomBytes(words) : words \in CallPrograms}

\* the keys the environment presses
Keys == {5, 11}

\* a newly built machine with one of `roms` loaded (Memory::new(true), as the
\* emulator's default configuration and the CPU's tests build it)
Boot(roms) ==
    /\ cpu = CpuNew
    /\ \E rom \in roms : memory = load_rom(MemoryNew(TRUE), rom).memory
    /\ display = DisplayNew
    /\ input = InputNew
    /\ result = Ok(TRUE)
    /\ cycles = 0
    /\ arg = <<>>

Init == Boot(Roms)

\* Cpu::execute_cycle, at most `limit` times; result is the Result of the last call
Cycle(limit) ==
    /\ cycles < limit
    /\ ~Panicked(result)
    /\ \E overflow_checks \in BOOLEAN :
          LET r == execute_cycle(cpu, memory, display, input, overflow_checks)
          IN  /\ cpu' = r.cpu
              /\ memory' = r.memory
              /\ display' = r.display
              /\ input' = r.input
              /\ result' = r.res
    /\ cycles' = cycles + 1
    /\ UNCHANGED arg

ExecuteCycle == Cycle(MaxCycles)

\* Cpu::update_timers
UpdateTimers ==
    /\ ~Panicked(result)
    /\ cpu' = update_timers(cpu)
    /\ UNCHANGED <<memory, display, input, result, cycles, arg>>

\* Cpu::reset
Reset ==
    /\ ~Panicked(result)
    /\ cpu' = CpuReset(cpu)
    /\ UNCHANGED <<memory, display, input, result, cycles, arg>>

\* MockInput::press_key_u8
PressKey ==
    /\ ~Panicked(result)
    /\ Len(input.key_queue) < MaxQueue
    /\ \E key \in Keys : input' = press_key(input, key).input
    /\ UNCHANGED <<cpu, memory, display, result, cycles, arg>>

\* MockInput::release_key_u8
ReleaseKey ==
    /\ ~Panicked(result)
    /\ \E key \in Keys : input' = release_key(input, key).input
    /\ UNCHANGED <<cpu, memory, display, result, cycles, arg>>

\* MockInput::clear_all: every key is up and no press is queued
ClearAll ==
    /\ ~Panicked(result)
    /\ input' = InputNew
    /\ input' # input
    /\ UNCHANGED <<cpu, memory, display, result, cycles, arg>>

\* MockInput::wait_for_key_press called by a driver: the last queued press is
\* popped; with none queued the call fails and changes nothing
WaitForKeyPress ==
    /\ ~Panicked(result)
    /\ input.key_queue # <<>>
    /\ input' = [input EXCEPT !.key_queue =
                    SubSeq(input.key_queue, 1, Len(input.key_queue) - 1)]
    /\ UNCHANGED <<cpu, memory, display, result, cycles, arg>>

Next ==
    \/ ExecuteCycle \/ UpdateTimers \/ Reset
    \/ PressKey \/ ReleaseKey \/ ClearAll \/ WaitForKeyPress

Spec == Init /\ [][Next]_vars

(***************************************************************************)
(* The same machine running the call-stack programs, long enough to fill   *)
(* the stack.                                                              *)
(***************************************************************************)
CallInit == Boot(CallRoms)

ExecuteCallCycle == Cycle(MaxCallCycles)

CallNext == ExecuteCallCycle \/ UpdateTimers \/ Reset

CallSpec == CallInit /\ [][CallNext]_vars

(***************************************************************************)
(* The decoder alone: decode_opcode applied to every 16-bit opcode.        *)
(***************************************************************************)
\* no machine is built where a free function is studied
NotBuilt == [built |-> FALSE]
\* the function has not been called yet
Pending == [pending |-> TRUE]

DecodeInit ==
    /\ cpu = NotBuilt
    /\ memory = NotBuilt
    /\ display = NotBuilt
    /\ input = NotBuilt
    /\ result = Pending
    /\ cycles = 0
    /\ arg \in U16

Decode ==
    /\ result = Pending
    /\ result' = decode_opcode(arg)
    /\ UNCHANGED <<cpu, memory, display, input, cycles, arg>>

DecodeNext == Decode

DecodeSpec == DecodeInit /\ [][DecodeNext]_vars

(***************************************************************************)
(* Vocabulary of the properties.                                           *)
(***************************************************************************)
\* the step is a call of execute_cycle
CycleStep == cycles' = cycles + 1
\* the step is a call of reset
ResetStep == cycles' = cycles /\ cpu' = CpuNew /\ input' = input
\* the big-endian word at address a
WordAt(a) == memory.ram[a] * 256 + memory.ram[a + 1]
\* the CPU is about to fetch the word at PC
Fetching == cpu.state = Running /\ cpu.pc <= MEMORY_SIZE - 2
\* ... and that word decodes to the instruction named op
Fetches(op) ==
    /\ Fetching
    /\ decode_opcode(WordAt(cpu.pc)).ok
    /\ decode_opcode(WordAt(cpu.pc)).val.op = op
\* the instruction about to be fetched
NextInstruction == decode_opcode(WordAt(cpu.pc)).val
\* the key the input offers, if any
Offered == try_get_key_press(input).key
\* the last call of execute_cycle failed with this error of the instruction
FailedWith(opcode, addr, cause) ==
    result = Err(InstructionExecutionFailed(opcode, addr, cause))

InstructionNames ==
    { "Cls", "Ret", "Sys", "Jump", "Call", "JumpV0", "SkipEqImm", "SkipNeImm",
      "SkipEqReg", "SkipNeReg", "LoadImm", "LoadReg", "SetIndex", "AddImm", "AddReg",
      "SubReg", "SubnReg", "OrReg", "AndReg", "XorReg", "ShrReg", "ShlReg", "Draw",
      "SkipKeyPressed", "SkipKeyNotPressed", "Random", "LoadDelayTimer",
      "SetDelayTimer", "SetSoundTimer", "WaitKey", "AddIndex", "LoadFont", "StoreBcd",
      "StoreRegisters", "LoadRegisters" }

(***************************************************************************)
(* The properties.                                                         *)
(***************************************************************************)

\* C1: a cycle that starts in state Running with PC <= 0xFFE advances PC by 2 in
\* the fetch, before the opcode is decoded or executed, whatever the opcode; when
\* decoding or executing it then fails, PC is the fetch address + 2.
C1_FetchAdvancesPc ==
    [][(CycleStep /\ Fetching) =>
          /\ fetch_instruction(cpu, memory).res.ok
          /\ fetch_instruction(cpu, memory).cpu = [cpu EXCEPT !.pc = cpu.pc + 2]
          /\ (~result'.ok => cpu'.pc = cpu.pc + 2)]_vars

\* the undecodable opcode 0xF123 at 0x200 has failed and PC is 0x202
C1_Witness ==
    /\ FailedWith(61731, 512, CpuDecode(UnknownInstruction(61731)))
    /\ cpu.pc = 514
    /\ cycles = 1

\* C2: WaitKey Vx fetched at A stores an offered key in Vx and stays Running, or
\* with no key offered enters WaitingForKey{x}; either way PC = A + 2 after that
\* cycle, and no cycle spent waiting changes PC.
C2_WaitKey ==
    [][CycleStep =>
          /\ Fetches("WaitKey") =>
                /\ result'.ok
                /\ cpu'.pc = cpu.pc + 2
                /\ IF Offered.some
                   THEN cpu'.v[NextInstruction.vx] = Offered.val /\ cpu'.state = Running
                   ELSE cpu'.state = WaitingForKey(NextInstruction.vx)
          /\ cpu.state.tag = "WaitingForKey" => cpu'.pc = cpu.pc]_vars

\* F10A waited a cycle for key 5, then F20A found key 11 at once
C2_Witness ==
    /\ memory.ram[512] = 241 /\ memory.ram[514] = 242
    /\ cycles = 3
    /\ cpu.state = Running
    /\ cpu.pc = 516
    /\ cpu.v[1] = 5
    /\ cpu.v[2] = 11

\* C3: a cycle in state WaitingForKey{x} fetches, decodes and executes nothing:
\* with no key it leaves the CPU, the memory and the display as they are; with a
\* key k it sets Vx to k and the state to Running and changes nothing else.
C3_WaitingCycle ==
    [][(CycleStep /\ cpu.state.tag = "WaitingForKey") =>
          /\ result'.ok
          /\ memory' = memory
          /\ display' = display
          /\ IF Offered.some
             THEN cpu' = [cpu EXCEPT !.v[cpu.state.vx] = Offered.val, !.state = Running]
             ELSE cpu' = cpu]_vars

\* F10A entered the wait, one cycle found no key, the next took key 11
C3_Witness ==
    /\ memory.ram[512] = 241 /\ memory.ram[514] = 242
    /\ cycles = 3
    /\ cpu.state = Running
    /\ cpu.pc = 514
    /\ cpu.v[1] = 11

\* C4: the execution state starts as Running and changes only from Running to
\* WaitingForKey{x}, by a WaitKey Vx that finds no key, and from WaitingForKey{x}
\* to Running, by a cycle that takes a key or by reset; a failing cycle leaves it
\* as it is.
C4_StateTransitions ==
    /\ cpu.state = Running
    /\ [][/\ cpu'.state # cpu.state =>
                \/ /\ CycleStep
                   /\ Fetches("WaitKey")
                   /\ ~Offered.some
                   /\ result'.ok
                   /\ cpu'.state = WaitingForKey(NextInstruction.vx)
                \/ /\ cpu.state.tag = "WaitingForKey"
                   /\ cpu'.state = Running
                   /\ (CycleStep /\ Offered.some) \/ ResetStep
          /\ (CycleStep /\ ~result'.ok) => cpu'.state = cpu.state /\ cpu.state = Running]_vars

\* the CPU waits for V2 after it waited for V1 and got key 5
C4_Witness ==
    /\ cpu.state = WaitingForKey(2)
    /\ cpu.v[1] = 5
    /\ cpu.pc = 516

\* C5: Call addr fetched at A with the stack not full stores A + 2 at stack[sp],
\* increments sp and sets PC to addr, so that a Return executed next gives
\* PC = A + 2 and the old sp; Return with the stack not empty pops the top entry
\* into PC.
C5_CallReturn ==
    [][CycleStep =>
          /\ (Fetches("Call") /\ cpu.sp < STACK_SIZE) =>
                /\ result'.ok
                /\ cpu' = [cpu EXCEPT !.stack[cpu.sp] = cpu.pc + 2,
                                      !.sp = cpu.sp + 1,
                                      !.pc = NextInstruction.addr]
                /\ return_from_subroutine(cpu').res.ok
                /\ return_from_subroutine(cpu').cpu.pc = cpu.pc + 2
                /\ return_from_subroutine(cpu').cpu.sp = cpu.sp
          /\ (Fetches("Ret") /\ cpu.sp > 0) =>
                /\ result'.ok
                /\ cpu' = [cpu EXCEPT !.sp = cpu.sp - 1, !.pc = cpu.stack[cpu.sp - 1]]]_vars

\* 0x2300 at 0x200 and 0x00EE at 0x300 have run: PC = 0x202 and sp = 0
C5_Witness ==
    /\ memory.ram[512] = 35 /\ memory.ram[513] = 0
    /\ memory.ram[768] = 0 /\ memory.ram[769] = 238
    /\ cycles = 2
    /\ cpu.pc = 514
    /\ cpu.sp = 0
    /\ cpu.stack[0] = 514

\* C6: a Call with 16 return addresses on the stack fails with StackOverflow and
\* a Return with an empty stack fails with StackUnderflow; both leave sp and the
\* stack as they are and PC at the fetch address + 2.
C6_StackErrors ==
    [][CycleStep =>
          /\ (Fetches("Call") /\ cpu.sp = STACK_SIZE) =>
                /\ result' = Err(InstructionExecutionFailed(WordAt(cpu.pc), cpu.pc, StackOverflow))
                /\ cpu' = [cpu EXCEPT !.pc = cpu.pc + 2]
          /\ (Fetches("Ret") /\ cpu.sp = 0) =>
                /\ result' = Err(InstructionExecutionFailed(WordAt(cpu.pc), cpu.pc, StackUnderflow))
                /\ cpu' = [cpu EXCEPT !.pc = cpu.pc + 2]]_vars

\* the 17th call of "call 0x200 for ever" has failed
C6_Witness ==
    /\ FailedWith(8704, 512, StackOverflow)
    /\ cycles = 17
    /\ cpu.sp = 16
    /\ cpu.pc = 514

\* C7: the stack pointer is always in 0..16 and no stack access is out of the
\* stack's 16 entries.
C7_StackPointerInRange ==
    /\ cpu.sp \in 0..STACK_SIZE
    /\ DOMAIN cpu.stack = 0..(STACK_SIZE - 1)
    /\ result # Err(Panic("index out of bounds"))

\* the stack is full
C7_Witness ==
    /\ cpu.sp = STACK_SIZE
    /\ cpu.stack[STACK_SIZE - 1] = 514
    /\ result.ok

\* C8: an error of decoding or executing the fetched opcode is returned by
\* execute_cycle as InstructionExecutionFailed with that opcode, the address it
\* was fetched from and the error itself as its cause; a cycle whose instruction
\* raised no error succeeds.
C8_ErrorsAreWrapped ==
    [][(CycleStep /\ Fetching) =>
          \E overflow_checks \in BOOLEAN :
             LET fetched == [cpu EXCEPT !.pc = cpu.pc + 2]
                 raised == execute_instruction(fetched, WordAt(cpu.pc), memory, display,
                                               input, overflow_checks).res
             IN  /\ (~raised.ok /\ ~Panicked(raised)) =>
                       result' = Err(InstructionExecutionFailed(WordAt(cpu.pc), cpu.pc, raised.err))
                 /\ raised.ok => result'.ok
                 /\ ~decode_opcode(WordAt(cpu.pc)).ok =>
                       result' = Err(InstructionExecutionFailed(
                                        WordAt(cpu.pc), cpu.pc,
                                        CpuDecode(UnknownInstruction(WordAt(cpu.pc)))))
                 /\ (~result'.ok /\ ~Panicked(result')) =>
                       /\ result'.err.kind = "InstructionExecutionFailed"
                       /\ result'.err.instruction = WordAt(cpu.pc)
                       /\ result'.err.addr = cpu.pc]_vars

\* 0xD012 at 0x202, with I = 0xFFF, has failed with the memory's error for the
\* sprite byte at 0x1000
C8_Witness ==
    /\ FailedWith(53266, 514, CpuMemory(OutOfBounds(4096)))
    /\ cycles = 2
    /\ cpu.pc = 516

\* C9: a cycle in state Running with PC >= 0xFFF fails with InvalidProgramCounter
\* carrying PC and changes nothing; with PC <= 0xFFE the fetch succeeds and reads
\* the big-endian word at PC.
C9_FetchBounds ==
    [][(CycleStep /\ cpu.state = Running) =>
          IF cpu.pc >= MEMORY_SIZE - 1
          THEN /\ result' = Err(InvalidProgramCounter(cpu.pc))
               /\ cpu' = cpu
               /\ memory' = memory
               /\ display' = display
               /\ input' = input
          ELSE /\ fetch_instruction(cpu, memory).res = Ok(WordAt(cpu.pc))
               /\ result' # Err(InvalidProgramCounter(cpu.pc))]_vars

\* the jump to 0xFFF has run and the cycle at PC = 0xFFF has failed
C9_Witness ==
    /\ result = Err(InvalidProgramCounter(4095))
    /\ cpu.pc = 4095
    /\ cycles = 2

\* C10: decode_opcode returns, for every 16-bit opcode, an Instruction or the
\* error UnknownInstruction with that opcode, never InvalidRegister.
C10_DecodeTotal ==
    result # Pending =>
        \/ result.ok /\ result.val.op \in InstructionNames
        \/ ~result.ok /\ result.err = UnknownInstruction(arg)

\* 0xFF00, with both register fields at 15, is decoded to UnknownInstruction
C10_Witness ==
    /\ arg = 65280
    /\ result = Err(UnknownInstruction(65280))

(***************************************************************************)
(* The canonical CHIP-8 opcode table: one row per instruction, with the    *)
(* high nibble, what else selects the row and the operands it carries.     *)
(***************************************************************************)
Row(family, sel, val, op, operands) ==
    [family |-> family, sel |-> sel, val |-> val, op |-> op, operands |-> operands]

CanonicalTable ==
    { Row(0, "low12", \H0E0, "Cls", {}),
      Row(0, "low12", \H0EE, "Ret", {}),
      Row(0, "sys", 0, "Sys", {"addr"}),
      Row(1, "any", 0, "Jump", {"addr"}),
      Row(2, "any", 0, "Call", {"addr"}),
      Row(3, "any", 0, "SkipEqImm", {"vx", "value"}),
      Row(4, "any", 0, "SkipNeImm", {"vx", "value"}),
      Row(5, "nibble", 0, "SkipEqReg", {"vx", "vy"}),
      Row(6, "any", 0, "LoadImm", {"vx", "value"}),
      Row(7, "any", 0, "AddImm", {"vx", "value"}),
      Row(8, "nibble", 0, "LoadReg", {"vx", "vy"}),
      Row(8, "nibble", 1, "OrReg", {"vx", "vy"}),
      Row(8, "nibble", 2, "AndReg", {"vx", "vy"}),
      Row(8, "nibble", 3, "XorReg", {"vx", "vy"}),
      Row(8, "nibble", 4, "AddReg", {"vx", "vy"}),
      Row(8, "nibble", 5, "SubReg", {"vx", "vy"}),
      Row(8, "nibble", 6, "ShrReg", {"vx"}),
      Row(8, "nibble", 7, "SubnReg", {"vx", "vy"}),
      Row(8, "nibble", 14, "ShlReg", {"vx"}),
      Row(9, "nibble", 0, "SkipNeReg", {"vx", "vy"}),
      Row(10, "any", 0, "SetIndex", {"addr"}),
      Row(11, "any", 0, "JumpV0", {"addr"}),
      Row(12, "any", 0, "Random", {"vx", "mask"}),
      Row(13, "any", 0, "Draw", {"vx", "vy", "n"}),
      Row(14, "byte", \H9E, "SkipKeyPressed", {"vx"}),
      Row(14, "byte", \HA1, "SkipKeyNotPressed", {"vx"}),
      Row(15, "byte", \H07, "LoadDelayTimer", {"vx"}),
      Row(15, "byte", \H0A, "WaitKey", {"vx"}),
      Row(15, "byte", \H15, "SetDelayTimer", {"vx"}),
      Row(15, "byte", \H18, "SetSoundTimer", {"vx"}),
      Row(15, "byte", \H1E, "AddIndex", {"vx"}),
      Row(15, "byte", \H29, "LoadFont", {"vx"}),
      Row(15, "byte", \H33, "StoreBcd", {"vx"}),
      Row(15, "byte", \H55, "StoreRegisters", {"vx"}),
      Row(15, "byte", \H65, "LoadRegisters", {"vx"}) }

\* the row is the row of this opcode
Matches(row, opcode) ==
    /\ opcode \div 4096 = row.family
    /\ CASE row.sel = "any" -> TRUE
         [] row.sel = "nibble" -> opcode % 16 = row.val
         [] row.sel = "byte" -> opcode % 256 = row.val
         [] row.sel = "low12" -> opcode % 4096 = row.val
         [] row.sel = "sys" -> opcode % 4096 \notin {\H0E0, \H0EE}

\* the operand of that name in the opcode's bits
Operand(field, opcode) ==
    CASE field = "vx" -> (opcode \div 256) % 16
      [] field = "vy" -> (opcode \div 16) % 16
      [] field = "addr" -> opcode % 4096
      [] field \in {"value", "mask"} -> opcode % 256
      [] field = "n" -> opcode % 16

\* C11: for every opcode decode_opcode agrees with the canonical table: the
\* opcode has at most one row, the instruction decoded is that row's, with
\* exactly its operands taken from the opcode's bits (x = bits 8-11, y = bits
\* 4-7, addr = low 12 bits, byte = low 8 bits, n = low 4 bits), and an opcode
\* with no row yields UnknownInstruction carrying the opcode.
C11_DecodeTable ==
    result # Pending =>
        LET rows == {row \in CanonicalTable : Matches(row, arg)}
        IN  IF rows = {} THEN result = Err(UnknownInstruction(arg))
            ELSE \E row \in rows :
                    /\ rows = {row}
                    /\ result.ok
                    /\ result.val.op = row.op
                    /\ DOMAIN result.val = row.operands \cup {"op"}
                    /\ \A field \in row.operands :
                          result.val[field] = Operand(field, arg)

\* 0x8AB7 is decoded to SubnReg VA, VB
C11_Witness ==
    /\ arg = \H8AB7
    /\ result = Ok([op |-> "SubnReg", vx |-> 10, vy |-> 11])

(***************************************************************************)
(* The display alone and under the Draw opcode: draw_sprite called on a    *)
(* display, directly or by execute_cycle running Dxyn, with the            *)
(* coordinates in Vx and Vy and the sprite in memory at I.                 *)
(***************************************************************************)
\* draws made per run
MaxDraws == 2

DrawXs == {5, 62, 255}
DrawYs == {20, 31, 255}

\* sprites of 0, 1, 2, 15 and 16 rows
Sprites ==
    { <<>>,
      <<\HFF>>,
      <<\H00>>,
      <<\H81, \H3C>>,
      [k \in 1..15 |-> IF k % 2 = 1 THEN \HAA ELSE \H55],
      [k \in 1..16 |-> \HFF] }

\* rows 0 and 20 lit
LitRows ==
    [row \in 0..(DISPLAY_HEIGHT - 1) |-> [col \in 0..(DISPLAY_WIDTH - 1) |-> row \in {0, 20}]]

\* scattered pixels
Speckled ==
    [row \in 0..(DISPLAY_HEIGHT - 1) |->
        [col \in 0..(DISPLAY_WIDTH - 1) |-> (3 * row + col) % 7 = 0]]

Framebuffers == {BlankFramebuffer, LitRows, Speckled}

\* the registers x and y of the opcode and the address in I
DrawOperands == {<<0, 1, \H300>>, <<15, 1, \H300>>, <<2, 15, \HFF1>>}

\* the opcode Dxyn for a sprite of that many rows
DrawOpcodeFor(vx, vy, sprite_data) == \HD000 + vx * 256 + vy * 16 + (Len(sprite_data) % 16)

\* a ROM with the opcode four times at 0x200 and the sprite's first rows (15
\* at most) at address index
DrawRom(opcode, index, sprite_data) ==
    LET rows == IF Len(sprite_data) > MAX_SPRITE_HEIGHT THEN MAX_SPRITE_HEIGHT
                ELSE Len(sprite_data)
        code == RomBytes(<<opcode, opcode, opcode, opcode>>)
        offset == index - PROGRAM_START_ADDR
    IN  [k \in 1..(offset + rows) |->
            IF k <= Len(code) THEN code[k]
            ELSE IF k > offset THEN sprite_data[k - offset]
            ELSE 0]

DrawInit ==
    \E x \in DrawXs, y \in DrawYs, sprite_data \in Sprites,
       framebuffer \in Framebuffers, operands \in DrawOperands :
        LET vx == operands[1]
            vy == operands[2]
            index == operands[3]
            rom == DrawRom(DrawOpcodeFor(vx, vy, sprite_data), index, sprite_data)
        IN  /\ cpu = [CpuNew EXCEPT !.v[vx] = x, !.v[vy] = y, !.i = index]
            /\ memory = load_rom(MemoryNew(TRUE), rom).memory
            /\ display = [framebuffer |-> framebuffer]
            /\ input = InputNew
            /\ result = Pending
            /\ cycles = 0
            /\ arg = [x |-> x, y |-> y, sprite_data |-> sprite_data,
                      display |-> [framebuffer |-> framebuffer]]

\* Display::draw_sprite called on the display with the arguments chosen
DrawSprite ==
    /\ cycles < MaxDraws
    /\ LET drawn == draw_sprite(display, arg.x, arg.y, arg.sprite_data)
       IN  /\ display' = drawn.display
           /\ result' = drawn.res
    /\ cycles' = cycles + 1
    /\ UNCHANGED <<cpu, memory, input, arg>>

\* Cpu::execute_cycle with the Draw opcode next
DrawOpcode ==
    /\ cycles < MaxDraws
    /\ \E overflow_checks \in BOOLEAN :
          LET r == execute_cycle(cpu, memory, display, input, overflow_checks)
          IN  /\ cpu' = r.cpu
              /\ memory' = r.memory
              /\ display' = r.display
              /\ input' = r.input
              /\ result' = r.res
    /\ cycles' = cycles + 1
    /\ UNCHANGED arg

\* DisplayBus::set_pixel, called by a driver before the first draw; arg keeps
\* the display the draws start from
SetPixel ==
    /\ cycles = 0
    /\ \E x \in {0, DISPLAY_WIDTH}, on \in BOOLEAN :
          display' = set_pixel(display, x, 0, on)
    /\ arg' = [arg EXCEPT !.display = display']
    /\ UNCHANGED <<cpu, memory, input, result, cycles>>

DrawNext == DrawSprite \/ DrawOpcode \/ SetPixel

DrawSpec == DrawInit /\ [][DrawNext]_vars

\* the step is a direct call of draw_sprite / a cycle of the CPU
DirectDrawStep == cycles' = cycles + 1 /\ cpu' = cpu
OpcodeStep == cycles' = cycles + 1 /\ cpu' # cpu
\* every draw so far was a direct call
OnlyDirectDraws == cpu.pc = PROGRAM_START_ADDR

\* the cells under the set bits of a sprite drawn at (x, y), as <<row, column>>:
\* bit b of row r, counted from the left, lies on ((x + b) mod 64, (y + r) mod 32)
Touched(x, y, sprite_data) ==
    { <<(y + rb[1]) % DISPLAY_HEIGHT, (x + rb[2]) % DISPLAY_WIDTH>> :
        rb \in { rb \in (0..(Len(sprite_data) - 1)) \X (0..7) :
                    Bit(sprite_data[rb[1] + 1], 7 - rb[2]) = 1 } }

\* C12: two direct calls of draw_sprite with the same arguments (a sprite of
\* 1..15 rows) leave the framebuffer as it was before the first; where the cells
\* under the sprite's set bits were off, the first call returns false and, the
\* sprite having a set bit, the second returns true.
C12_DrawTwiceRestores ==
    (cycles > 0 /\ OnlyDirectDraws /\ Len(arg.sprite_data) \in 1..MAX_SPRITE_HEIGHT) =>
        LET cells == Touched(arg.x, arg.y, arg.sprite_data)
            blank == \A cell \in cells : ~arg.display.framebuffer[cell[1]][cell[2]]
        IN  /\ cycles % 2 = 0 => display = arg.display
            /\ (blank /\ cycles = 1) => result = Ok(FALSE)
            /\ (blank /\ cycles = 2 /\ cells # {}) => result = Ok(TRUE)

\* 0xFF was drawn twice at (5, 20) on a blank display: the second call collided
\* and the display is blank again
C12_Witness ==
    /\ cycles = 2
    /\ OnlyDirectDraws
    /\ arg.sprite_data = <<\HFF>>
    /\ arg.x = 5 /\ arg.y = 20
    /\ arg.display = DisplayNew
    /\ display = DisplayNew
    /\ result = Ok(TRUE)

\* C13: draw_sprite(x, y, rows) toggles exactly the cells ((x + b) mod 64,
\* (y + r) mod 32) of the set bits (row r, bit b from the left) and changes no
\* other cell: coordinates wrap and are never clipped.
C13_DrawTogglesWrapped ==
    [][(DirectDrawStep /\ result'.ok) =>
          LET cells == Touched(arg.x, arg.y, arg.sprite_data)
          IN  display'.framebuffer =
                  [row \in 0..(DISPLAY_HEIGHT - 1) |->
                      [col \in 0..(DISPLAY_WIDTH - 1) |->
                          display.framebuffer[row][col] # (<<row, col>> \in cells)]]]_vars

\* 0x81, 0x3C drawn at (62, 31) on a blank display: row 31 has columns 62 and 5
\* on, row 0 has columns 0..3 on
C13_Witness ==
    /\ cycles = 1
    /\ OnlyDirectDraws
    /\ arg.x = 62 /\ arg.y = 31
    /\ arg.sprite_data = <<\H81, \H3C>>
    /\ arg.display = DisplayNew
    /\ display.framebuffer[31][62] /\ display.framebuffer[31][5]
    /\ ~display.framebuffer[31][63]
    /\ display.framebuffer[0][0] /\ display.framebuffer[0][3]
    /\ ~display.framebuffer[0][4] /\ ~display.framebuffer[0][63]

\* C14: draw_sprite returns collided = true exactly when some cell that was on
\* before the call lies under a set bit of the sprite, in whatever row.
C14_CollisionIff ==
    [][(DirectDrawStep /\ result'.ok) =>
          result'.val = (\E cell \in Touched(arg.x, arg.y, arg.sprite_data) :
                            display.framebuffer[cell[1]][cell[2]])]_vars

\* 0x81, 0x3C drawn at (5, 20) with rows 0 and 20 lit: the first row collided,
\* the second, on the dark row 21, did not; the call returned true
C14_Witness ==
    /\ cycles = 1
    /\ OnlyDirectDraws
    /\ arg.x = 5 /\ arg.y = 20
    /\ arg.sprite_data = <<\H81, \H3C>>
    /\ arg.display.framebuffer = LitRows
    /\ result = Ok(TRUE)
    /\ ~display.framebuffer[20][5]
    /\ display.framebuffer[21][7]

\* C15: draw_sprite with 0 rows returns EmptySpriteData and with more than 15
\* rows SpriteTooTall, the framebuffer unchanged; a Draw opcode with n = 0 fails
\* the cycle with EmptySpriteData wrapped in InstructionExecutionFailed, display
\* and registers (VF) unchanged, and no Draw opcode fails with SpriteTooTall.
C15_SpriteSizeErrors ==
    [][/\ DirectDrawStep =>
            /\ Len(arg.sprite_data) = 0 =>
                  result' = Err(EmptySpriteData) /\ display' = display
            /\ Len(arg.sprite_data) > 15 =>
                  /\ result' = Err(SpriteTooTall(Len(arg.sprite_data)))
                  /\ display' = display
       /\ (OpcodeStep /\ Fetches("Draw")) =>
            /\ NextInstruction.n = 0 =>
                  /\ result' = Err(InstructionExecutionFailed(
                                      WordAt(cpu.pc), cpu.pc, CpuDisplay(EmptySpriteData)))
                  /\ display' = display
                  /\ cpu'.v = cpu.v
            /\ ~result'.ok =>
                  ~(/\ result'.err.kind = "InstructionExecutionFailed"
                    /\ result'.err.source.kind = "Display"
                    /\ result'.err.source.source.kind = "SpriteTooTall")]_vars

\* D010 at 0x200 has failed with EmptySpriteData, the display as it was
C15_Witness ==
    /\ cycles = 1
    /\ FailedWith(\HD010, \H200, CpuDisplay(EmptySpriteData))
    /\ cpu.pc = \H202
    /\ arg.display.framebuffer = Speckled
    /\ display = arg.display
    /\ cpu.v[15] = 0

\* C16: Draw Vx, Vy, n with n in 1..15 and I + n - 1 <= 0xFFF draws the n bytes
\* at I .. I + n - 1 at (Vx, Vy), the values the registers had before the
\* instruction, and sets VF to 1 if the draw collided and to 0 otherwise; I, the
\* other registers and the memory are unchanged.
C16_DrawOpcode ==
    [][(OpcodeStep /\ Fetches("Draw")
           /\ NextInstruction.n \in 1..15
           /\ cpu.i + NextInstruction.n - 1 <= \HFFF) =>
          LET ins == NextInstruction
              bytes == [k \in 1..ins.n |-> memory.ram[cpu.i + k - 1]]
              drawn == draw_sprite(display, cpu.v[ins.vx], cpu.v[ins.vy], bytes)
          IN  /\ result'.ok
              /\ display' = drawn.display
              /\ cpu' = [cpu EXCEPT !.pc = cpu.pc + 2,
                                    !.v[15] = IF drawn.res.val THEN 1 ELSE 0]
              /\ memory' = memory]_vars

\* DF11 with VF = 5, V1 = 20 and rows 0 and 20 lit: 0xFF was drawn at (5, 20),
\* collided, and VF is 1
C16_Witness ==
    /\ cycles = 1
    /\ memory.ram[\H200] = \HDF /\ memory.ram[\H201] = \H11
    /\ memory.ram[\H300] = \HFF
    /\ arg.x = 5 /\ arg.y = 20
    /\ arg.display.framebuffer = LitRows
    /\ cpu.pc = \H202
    /\ cpu.v[15] = 1
    /\ ~display.framebuffer[20][5] /\ ~display.framebuffer[20][12]
    /\ display.framebuffer[20][13]

(***************************************************************************)
(* The memory alone: a Memory built with or without write protection and   *)
(* a sequence of calls of its methods.  arg is the last call, its name and *)
(* its arguments; result is what it returned.                              *)
(***************************************************************************)
\* calls made per run
MaxMemoryCalls == 2

MemoryAddrs == {\H050, \H1FF, \H200, \HFFE, \HFFF, \H1000, \HFFFF}
ByteValues == {\H01, \HAB}
WordValues == {\HABCD}

\* a payload of that many bytes, none of them zero
Payload(size) == [k \in 1..size |-> (k % 251) + 1]

RomPayloads == {Payload(0), Payload(2), Payload(MAX_ROM_SIZE), Payload(MAX_ROM_SIZE + 1)}

MemoryInit ==
    /\ cpu = NotBuilt
    /\ \E write_protection_enabled \in BOOLEAN :
          memory = MemoryNew(write_protection_enabled)
    /\ display = NotBuilt
    /\ input = NotBuilt
    /\ result = Pending
    /\ cycles = 0
    /\ arg = [call |-> "new"]

WriteByte ==
    /\ cycles < MaxMemoryCalls
    /\ \E addr \in MemoryAddrs, value \in ByteValues :
          LET written == write_byte(memory, addr, value)
          IN  /\ memory' = written.memory
              /\ result' = written.res
              /\ arg' = [call |-> "write_byte", addr |-> addr, value |-> value]
    /\ cycles' = cycles + 1
    /\ UNCHANGED <<cpu, display, input>>

ReadByte ==
    /\ cycles < MaxMemoryCalls
    /\ \E addr \in MemoryAddrs :
          /\ result' = read_byte(memory, addr)
          /\ arg' = [call |-> "read_byte", addr |-> addr]
    /\ cycles' = cycles + 1
    /\ UNCHANGED <<cpu, memory, display, input>>

WriteWord ==
    /\ cycles < MaxMemoryCalls
    /\ \E addr \in MemoryAddrs, value \in WordValues :
          LET written == write_word(memory, addr, value)
          IN  /\ memory' = written.memory
              /\ result' = written.res
              /\ arg' = [call |-> "write_word", addr |-> addr, value |-> value]
    /\ cycles' = cycles + 1
    /\ UNCHANGED <<cpu, display, input>>

ReadWord ==
    /\ cycles < MaxMemoryCalls
    /\ \E addr \in MemoryAddrs :
          /\ result' = read_word(memory, addr)
          /\ arg' = [call |-> "read_word", addr |-> addr]
    /\ cycles' = cycles + 1
    /\ UNCHANGED <<cpu, memory, display, input>>

LoadRom ==
    /\ cycles < MaxMemoryCalls
    /\ \E rom_data \in RomPayloads :
          LET loaded == load_rom(memory, rom_data)
          IN  /\ memory' = loaded.memory
              /\ result' = loaded.res
              /\ arg' = [call |-> "load_rom", rom_data |-> rom_data]
    /\ cycles' = cycles + 1
    /\ UNCHANGED <<cpu, display, input>>

ResetMemory ==
    /\ cycles < MaxMemoryCalls
    /\ memory' = MemoryReset(memory)
    /\ result' = Ok(TRUE)
    /\ arg' = [call |-> "reset"]
    /\ cycles' = cycles + 1
    /\ UNCHANGED <<cpu, display, input>>

SetWriteProtection ==
    /\ cycles < MaxMemoryCalls
    /\ \E enabled \in BOOLEAN :
          /\ memory' = set_write_protection(memory, enabled)
          /\ arg' = [call |-> "set_write_protection", enabled |-> enabled]
    /\ result' = Ok(TRUE)
    /\ cycles' = cycles + 1
    /\ UNCHANGED <<cpu, display, input>>

MemoryNext ==
    \/ WriteByte \/ ReadByte \/ WriteWord \/ ReadWord \/ LoadRom
    \/ ResetMemory \/ SetWriteProtection

MemorySpec == MemoryInit /\ [][MemoryNext]_vars

\* the step is a call of the method of that name
Calls(name) == cycles' = cycles + 1 /\ arg'.call = name
\* write_byte refuses the address
Protected(addr) == memory.write_protection_enabled /\ addr <= \H1FF

\* C17: write_byte then read_byte at an address below 4096 returns the written
\* value, unless the address is <= 0x1FF with write protection enabled: then
\* write_byte fails with WriteProtected and the byte stays; at an address >= 4096
\* both fail with OutOfBounds and the memory is unchanged.
C17_ByteRoundTrip ==
    [][/\ Calls("write_byte") =>
            IF arg'.addr >= 4096
            THEN result' = Err(OutOfBounds(arg'.addr)) /\ memory' = memory
            ELSE IF Protected(arg'.addr)
            THEN result' = Err(WriteProtected(arg'.addr)) /\ memory' = memory
            ELSE result'.ok /\ read_byte(memory', arg'.addr) = Ok(arg'.value)
       /\ Calls("read_byte") =>
            /\ memory' = memory
            /\ IF arg'.addr >= 4096 THEN result' = Err(OutOfBounds(arg'.addr))
               ELSE result' = Ok(memory.ram[arg'.addr])
       /\ (arg.call = "write_byte" /\ result.ok
              /\ Calls("read_byte") /\ arg'.addr = arg.addr) =>
            result' = Ok(arg.value)]_vars

\* 0xAB was written at 0x200 and read back
C17_Witness ==
    /\ cycles = 2
    /\ arg = [call |-> "read_byte", addr |-> \H200]
    /\ result = Ok(\HAB)
    /\ memory.ram[\H200] = \HAB
    /\ memory.write_protection_enabled

\* C18: write_word(a, value) at a writable address with a + 1 < 4096, then
\* read_word(a), returns value, with the high byte at a and the low byte at
\* a + 1; read_word and write_word at an address with a + 1 >= 4096 fail with
\* the word bounds error.
C18_WordRoundTrip ==
    [][/\ Calls("write_word") =>
            IF arg'.addr + 1 >= 4096
            THEN result' = Err(WordWriteOutOfBounds(arg'.addr)) /\ memory' = memory
            ELSE ~Protected(arg'.addr) =>
                    /\ result'.ok
                    /\ read_word(memory', arg'.addr) = Ok(arg'.value)
                    /\ read_byte(memory', arg'.addr) = Ok(arg'.value \div 256)
                    /\ read_byte(memory', arg'.addr + 1) = Ok(arg'.value % 256)
       /\ Calls("read_word") =>
            /\ memory' = memory
            /\ IF arg'.addr + 1 >= 4096
               THEN result' = Err(WordReadOutOfBounds(arg'.addr))
               ELSE result' = Ok(memory.ram[arg'.addr] * 256 + memory.ram[arg'.addr + 1])
       /\ (arg.call = "write_word" /\ result.ok
              /\ Calls("read_word") /\ arg'.addr = arg.addr) =>
            result' = Ok(arg.value)]_vars

\* 0xABCD was written at 0xFFE, the last word of the memory, and read back
C18_Witness ==
    /\ cycles = 2
    /\ arg = [call |-> "read_word", addr |-> \HFFE]
    /\ result = Ok(\HABCD)
    /\ memory.ram[\HFFE] = \HAB
    /\ memory.ram[\HFFF] = \HCD

\* C19: write_word either writes both bytes or returns an error with no byte
\* of the memory changed.
C19_WordAllOrNothing ==
    [][Calls("write_word") =>
          \/ /\ result'.ok
             /\ memory'.ram[arg'.addr] = arg'.value \div 256
             /\ memory'.ram[arg'.addr + 1] = arg'.value % 256
          \/ /\ ~result'.ok
             /\ memory' = memory]_vars

\* write_word at 0x1FF with protection enabled has failed and 0x200 was not
\* written
C19_Witness ==
    /\ cycles = 1
    /\ arg = [call |-> "write_word", addr |-> \H1FF, value |-> \HABCD]
    /\ result = Err(WriteProtected(\H1FF))
    /\ memory = MemoryNew(TRUE)

\* C20: load_rom with a payload of at most 3584 bytes succeeds, copies byte i of
\* it to 0x200 + i and changes no other byte; with 3585 bytes or more it fails
\* with RomTooLarge and changes no byte.
C20_LoadRom ==
    [][Calls("load_rom") =>
          LET size == Len(arg'.rom_data)
          IN  IF size <= 3584
              THEN /\ result'.ok
                   /\ \A a \in 0..(MEMORY_SIZE - 1) :
                         memory'.ram[a] =
                            IF a >= \H200 /\ a - \H200 < size
                            THEN arg'.rom_data[a - \H200 + 1]
                            ELSE memory.ram[a]
                   /\ memory'.write_protection_enabled = memory.write_protection_enabled
              ELSE /\ result' = Err(RomTooLarge(size))
                   /\ memory' = memory]_vars

\* a payload of 2 bytes was loaded over a memory with 0xAB at 0xFFF: the two
\* bytes are at 0x200, 0x202 and 0xFFF are as they were and the font is in place
C20_Witness ==
    /\ cycles = 2
    /\ arg = [call |-> "load_rom", rom_data |-> Payload(2)]
    /\ result.ok
    /\ memory.ram[\H200] = 2 /\ memory.ram[\H201] = 3
    /\ memory.ram[\H202] = 0
    /\ memory.ram[\HFFF] = \HAB
    /\ memory.ram[FONT_START_ADDR] = \HF0

\* C21: Memory reset sets every byte outside 0x050..0x09F to 0, restores the 80
\* font bytes at 0x050..0x09F to the built-in glyph table and leaves the
\* write-protection flag as it was, so a protected write to the low region
\* still fails after it.
C21_MemoryReset ==
    [][/\ Calls("reset") =>
            /\ \A a \in 0..(MEMORY_SIZE - 1) :
                  memory'.ram[a] =
                     IF a >= \H050 /\ a <= \H09F THEN FONT_SET[a - \H050 + 1] ELSE 0
            /\ memory'.write_protection_enabled = memory.write_protection_enabled
       /\ (arg.call = "reset" /\ memory.write_protection_enabled
              /\ Calls("write_byte") /\ arg'.addr <= \H1FF) =>
            /\ result' = Err(WriteProtected(arg'.addr))
            /\ memory' = memory]_vars

\* a protected write at 0x1FF has failed on a memory that was just reset
C21_Witness ==
    /\ cycles = 2
    /\ arg = [call |-> "write_byte", addr |-> \H1FF, value |-> \HAB]
    /\ result = Err(WriteProtected(\H1FF))
    /\ memory = MemoryNew(TRUE)

\* C22: the write-protection flag is fixed at construction: no operation of the
\* memory's public interface changes it, so a memory built with protection
\* enabled rejects every later write to 0x000..0x1FF.
C22_ProtectionFlagFixed ==
    [][memory'.write_protection_enabled = memory.write_protection_enabled]_vars

(***************************************************************************)
(* The timers alone: a CPU whose timers were set, ticked by update_timers. *)
(* arg holds the values the timers were set to, cycles counts the ticks    *)
(* and result is what should_beep returns after the tick.                  *)
(***************************************************************************)
\* ticks per run
MaxTicks == 256

\* a new CPU; arg is the value each timer was last set to
TimerInit ==
    /\ cpu = CpuNew
    /\ arg = [delay_timer |-> 0, sound_timer |-> 0]
    /\ memory = NotBuilt
    /\ display = NotBuilt
    /\ input = NotBuilt
    /\ result = Pending
    /\ cycles = 0

Tick ==
    /\ cycles < MaxTicks
    /\ cpu' = update_timers(cpu)
    /\ result' = Ok(should_beep(cpu'))
    /\ cycles' = cycles + 1
    /\ UNCHANGED <<memory, display, input, arg>>

\* Cpu::set_delay_timer, called by a driver before the ticks are counted
SetDelayTimer ==
    /\ cycles = 0
    /\ \E value \in {0, 1, 2, 60, 255} :
          /\ cpu' = [cpu EXCEPT !.delay_timer = value]
          /\ arg' = [arg EXCEPT !.delay_timer = value]
    /\ UNCHANGED <<memory, display, input, result, cycles>>

\* Cpu::set_sound_timer, called by a driver before the ticks are counted
SetSoundTimer ==
    /\ cycles = 0
    /\ \E value \in {0, 1, 2, 60, 255} :
          /\ cpu' = [cpu EXCEPT !.sound_timer = value]
          /\ arg' = [arg EXCEPT !.sound_timer = value]
    /\ UNCHANGED <<memory, display, input, result, cycles>>

TimerSpec == TimerInit /\ [][Tick \/ SetDelayTimer \/ SetSoundTimer]_vars

\* C23: update_timers decrements each timer by exactly 1 if it is > 0 and
\* leaves it at 0 otherwise, each independently of the other; no timer wraps
\* below zero, a timer set to n reaches 0 after exactly n ticks, and
\* should_beep is true exactly when the sound timer is > 0.
C23_Timers ==
    [][cycles' = cycles + 1 =>
          /\ cpu'.delay_timer = IF cpu.delay_timer > 0 THEN cpu.delay_timer - 1 ELSE 0
          /\ cpu'.sound_timer = IF cpu.sound_timer > 0 THEN cpu.sound_timer - 1 ELSE 0
          /\ cpu' = [cpu EXCEPT !.delay_timer = cpu'.delay_timer,
                                !.sound_timer = cpu'.sound_timer]
          /\ cpu'.delay_timer <= cpu.delay_timer
          /\ cpu'.sound_timer <= cpu.sound_timer
          /\ cpu'.delay_timer = 0 <=> cycles' >= arg.delay_timer
          /\ cpu'.sound_timer = 0 <=> cycles' >= arg.sound_timer
          /\ result' = Ok(cpu'.sound_timer > 0)]_vars

\* a delay timer set to 255 is 0 after 255 ticks, a sound timer set to 2 has
\* stayed at 0, and the beep is off
C23_Witness ==
    /\ cycles = 255
    /\ arg = [delay_timer |-> 255, sound_timer |-> 2]
    /\ cpu.delay_timer = 0
    /\ cpu.sound_timer = 0
    /\ result = Ok(FALSE)

(***************************************************************************)
(* The instructions one at a time: a machine whose registers were set with *)
(* set_register and whose keys were pressed before it runs a short         *)
(* program.                                                                *)
(***************************************************************************)
\* cycles per run
MaxCpuCycles == 2

\* programs of one instruction on the registers 1, 2 and F, the ones that
\* address memory after I was set
CpuPrograms ==
    LET XY == {<<1, 2>>, <<2, 1>>, <<1, 1>>, <<1, 15>>, <<15, 1>>, <<15, 15>>}
        X == {1, 2, 15}
    IN  {<<base + xy[1] * 256 + xy[2] * 16>> :
            base \in {\H8004, \H8005, \H8007, \H8006, \H800E, \H5000, \H9000}, xy \in XY}
        \cup {<<base + x * 256 + value>> :
                base \in {\H3000, \H4000}, x \in {1, 15}, value \in {\H00, \H85}}
        \cup {<<base + x * 256>> : base \in {\HE09E, \HE0A1, \HF029}, x \in X}
        \cup {<<\HA300, base + x * 256>> : base \in {\HF033, \HF055}, x \in X}
        \cup {<<\HA050, \HF065 + x * 256>> : x \in X}

CpuInit ==
    /\ \E words \in CpuPrograms : memory = load_rom(MemoryNew(TRUE), RomBytes(words)).memory
    /\ display = DisplayNew
    /\ input \in {InputNew, press_key(press_key(InputNew, 5).input, 15).input}
    /\ \E v1, v2 \in {0, 1, \H85, \HFF}, vf \in {0, 1, \HFF} :
          cpu = [CpuNew EXCEPT !.v = [r \in 0..(NUM_REGISTERS - 1) |->
                                         CASE r = 1 -> v1
                                           [] r = 2 -> v2
                                           [] r = 15 -> vf
                                           [] OTHER -> 16 + r]]
    /\ result = Ok(TRUE)
    /\ cycles = 0
    /\ arg = <<>>

ExecuteCpuCycle == Cycle(MaxCpuCycles)

\* Cpu::set_register, called by a driver between the cycles: a register that
\* exists takes the value, for any other the call fails and changes nothing
SetRegister ==
    /\ ~Panicked(result)
    /\ \E register \in {15, NUM_REGISTERS}, value \in {0, 1, \HFF} :
          /\ register < NUM_REGISTERS
          /\ cpu' = [cpu EXCEPT !.v[register] = value]
    /\ UNCHANGED <<memory, display, input, result, cycles, arg>>

CpuSpec == CpuInit /\ [][ExecuteCpuCycle \/ SetRegister]_vars

\* C24: a skip opcode fetched at address A leaves PC = A + 4 if its condition
\* holds and A + 2 otherwise, and changes nothing but PC; the key skips test the
\* key numbered Vx & 0x0F and succeed for every Vx.
C24_Skips ==
    [][(/\ CycleStep
        /\ Fetching
        /\ decode_opcode(WordAt(cpu.pc)).ok
        /\ NextInstruction.op \in {"SkipEqImm", "SkipNeImm", "SkipEqReg", "SkipNeReg",
                                   "SkipKeyPressed", "SkipKeyNotPressed"}) =>
          LET ins == NextInstruction
              A == cpu.pc
              pressed == input.key_states[cpu.v[ins.vx] % 16]
              holds == CASE ins.op = "SkipEqImm" -> cpu.v[ins.vx] = ins.value
                         [] ins.op = "SkipNeImm" -> cpu.v[ins.vx] # ins.value
                         [] ins.op = "SkipEqReg" -> cpu.v[ins.vx] = cpu.v[ins.vy]
                         [] ins.op = "SkipNeReg" -> cpu.v[ins.vx] # cpu.v[ins.vy]
                         [] ins.op = "SkipKeyPressed" -> pressed
                         [] ins.op = "SkipKeyNotPressed" -> ~pressed
          IN  /\ result' = Ok(TRUE)
              /\ cpu' = [cpu EXCEPT !.pc = IF holds THEN A + 4 ELSE A + 2]
              /\ memory' = memory
              /\ display' = display
              /\ input' = input]_vars

\* SkipKeyPressed VF with VF = 0xFF and key 15 pressed has skipped
C24_Witness ==
    /\ cycles = 1
    /\ WordAt(\H200) = \HEF9E
    /\ cpu.v[15] = \HFF
    /\ input.key_states[15]
    /\ cpu.pc = \H204
    /\ result = Ok(TRUE)

\* C25: AddReg sets Vx = (Vx + Vy) mod 256 and then VF = 1 if Vx + Vy > 255 else
\* 0; SubReg sets Vx = (Vx - Vy) mod 256 and then VF = 1 if Vx >= Vy else 0;
\* SubnReg sets Vx = (Vy - Vx) mod 256 and then VF = 1 if Vy >= Vx else 0; the
\* flag is written last, so with x = F the register VF holds the flag.
C25_Arithmetic ==
    [][(CycleStep /\ (Fetches("AddReg") \/ Fetches("SubReg") \/ Fetches("SubnReg"))) =>
          LET ins == NextInstruction
              Vx == cpu.v[ins.vx]
              Vy == cpu.v[ins.vy]
              value == CASE ins.op = "AddReg" -> (Vx + Vy) % 256
                         [] ins.op = "SubReg" -> (Vx - Vy) % 256
                         [] ins.op = "SubnReg" -> (Vy - Vx) % 256
              flag == CASE ins.op = "AddReg" -> IF Vx + Vy > 255 THEN 1 ELSE 0
                        [] ins.op = "SubReg" -> IF Vx >= Vy THEN 1 ELSE 0
                        [] ins.op = "SubnReg" -> IF Vy >= Vx THEN 1 ELSE 0
          IN  /\ result' = Ok(TRUE)
              /\ cpu'.v[15] = flag
              /\ ins.vx # 15 => cpu'.v[ins.vx] = value
              /\ \A r \in 0..14 : r # ins.vx => cpu'.v[r] = cpu.v[r]
              /\ cpu' = [cpu EXCEPT !.pc = cpu.pc + 2, !.v = cpu'.v]]_vars

\* AddReg VF, V1 with VF = 0xFF and V1 = 1: the sum is 0 and VF holds the carry
C25_Witness ==
    /\ cycles = 1
    /\ WordAt(\H200) = \H8F14
    /\ cpu.v[1] = 1
    /\ cpu.v[15] = 1
    /\ cpu.pc = \H202

\* C26: ShrReg sets VF = Vx & 1 and then Vx = Vx >> 1; ShlReg sets
\* VF = (Vx & 0x80) >> 7 and then Vx = (Vx << 1) mod 256; so for x # F, VF is
\* the bit shifted out of the old Vx and Vx is the shifted old value, and Vy is
\* neither read nor changed.
C26_Shifts ==
    [][(CycleStep /\ (Fetches("ShrReg") \/ Fetches("ShlReg"))) =>
          LET ins == NextInstruction
              x == ins.vx
              Vx == cpu.v[x]
              right == ins.op = "ShrReg"
              bit == IF right THEN Vx % 2 ELSE Vx \div 128
              shifted == IF right THEN Vx \div 2 ELSE (Vx * 2) % 256
              \* with x = F the shift is applied to the flag just written
              flag_shifted == IF right THEN bit \div 2 ELSE (bit * 2) % 256
          IN  /\ result' = Ok(TRUE)
              /\ IF x = 15 THEN cpu'.v[15] = flag_shifted
                 ELSE cpu'.v[15] = bit /\ cpu'.v[x] = shifted
              /\ \A r \in 0..14 : r # x => cpu'.v[r] = cpu.v[r]
              /\ cpu' = [cpu EXCEPT !.pc = cpu.pc + 2, !.v = cpu'.v]]_vars

\* ShlReg V1 (y = 2) with V1 = 0x85: V1 is 0x0A, VF is the bit shifted out and
\* V2 is as it was
C26_Witness ==
    /\ cycles = 1
    /\ WordAt(\H200) = \H812E
    /\ cpu.v[1] = \H0A
    /\ cpu.v[15] = 1
    /\ cpu.v[2] = \HFF
    /\ cpu.pc = \H202

\* C27: LoadFont sets I to the font glyph address of the digit in Vx, as the
\* memory's font-address operation defines it: I = 0x050 + 5 * Vx for Vx in
\* 0..15, and for Vx > 15 the instruction fails with the invalid-font-digit
\* error and does not set I.
C27_LoadFont ==
    [][(CycleStep /\ Fetches("LoadFont")) =>
          LET Vx == cpu.v[NextInstruction.vx]
              glyph == get_font_sprite_addr(memory, Vx)
          IN  IF Vx <= 15
              THEN /\ result' = Ok(TRUE)
                   /\ glyph = Ok(\H050 + 5 * Vx)
                   /\ cpu' = [cpu EXCEPT !.pc = cpu.pc + 2, !.i = glyph.val]
              ELSE /\ result' = Err(InstructionExecutionFailed(
                                       WordAt(cpu.pc), cpu.pc, CpuMemory(glyph.err)))
                   /\ glyph.err = InvalidFontDigit(Vx)
                   /\ cpu'.i = cpu.i]_vars

\* C28: StoreBcd writes the hundreds digit of Vx at I, the tens digit at I + 1
\* and the units digit at I + 2, for every Vx and every writable I; the
\* registers and I are unchanged.
C28_StoreBcd ==
    [][(CycleStep /\ Fetches("StoreBcd") /\ cpu.i >= \H200 /\ cpu.i + 2 <= \HFFF) =>
          LET Vx == cpu.v[NextInstruction.vx]
          IN  /\ result' = Ok(TRUE)
              /\ memory'.ram[cpu.i] = Vx \div 100
              /\ memory'.ram[cpu.i + 1] = (Vx \div 10) % 10
              /\ memory'.ram[cpu.i + 2] = Vx % 10
              /\ cpu'.v = cpu.v
              /\ cpu'.i = cpu.i]_vars

\* C29: StoreRegisters copies V0..Vx to memory at I .. I + x and LoadRegisters
\* copies memory at I .. I + x into V0..Vx, both leaving I unchanged, so that a
\* LoadRegisters after a StoreRegisters with the same x and I restores V0..Vx.
C29_StoreLoadRegisters ==
    [][/\ (CycleStep /\ Fetches("StoreRegisters")
              /\ cpu.i >= \H200 /\ cpu.i + NextInstruction.vx <= \HFFF) =>
            /\ result' = Ok(TRUE)
            /\ \A r \in 0..NextInstruction.vx : memory'.ram[cpu.i + r] = cpu.v[r]
            /\ cpu'.v = cpu.v
            /\ cpu'.i = cpu.i
       /\ (CycleStep /\ Fetches("LoadRegisters")
              /\ cpu.i + NextInstruction.vx <= \HFFF) =>
            /\ result' = Ok(TRUE)
            /\ \A r \in 0..NextInstruction.vx : cpu'.v[r] = memory.ram[cpu.i + r]
            /\ \A r \in (NextInstruction.vx + 1)..15 : cpu'.v[r] = cpu.v[r]
            /\ cpu'.i = cpu.i
            /\ memory' = memory]_vars

\* C30: Cpu reset, from any reachable state (WaitingForKey and a full call
\* stack included), yields exactly the state of a newly constructed CPU:
\* V0..VF = 0, I = 0, PC = 0x200, sp = 0, all 16 stack entries 0, both timers 0,
\* state Running.
C30_CpuReset ==
    /\ [](LET c == CpuReset(cpu)
          IN  /\ c = CpuNew
              /\ \A r \in 0..15 : c.v[r] = 0 /\ c.stack[r] = 0
              /\ c.i = 0 /\ c.pc = \H200 /\ c.sp = 0
              /\ c.delay_timer = 0 /\ c.sound_timer = 0
              /\ c.state = Running)
    \* a step that is neither a cycle nor a tick of the timers is a reset
    /\ [][(cycles' = cycles /\ cpu' # update_timers(cpu)) => cpu' = CpuNew]_vars

\* the CPU was reset after the 17 cycles that fill the call stack and then wait
\* for a key
C30_Witness ==
    /\ cycles = 17
    /\ WordAt(\H220) = \HF00A
    /\ cpu = CpuNew

\* C31: whenever execute_cycle returns an error, V0..VF, I, sp, the stack, both
\* timers, the execution state, the memory and the display are as before the
\* cycle; only PC may differ: it is advanced by 2 when the error arises after
\* the fetch and unchanged when the error is InvalidProgramCounter.
C31_FailureAtomicity ==
    [][(CycleStep /\ ~result'.ok /\ ~Panicked(result')) =>
          /\ cpu' = [cpu EXCEPT !.pc =
                        IF result'.err.kind = "InvalidProgramCounter"
                        THEN cpu.pc ELSE cpu.pc + 2]
          /\ result'.err.kind \in {"InvalidProgramCounter", "InstructionExecutionFailed"}
          /\ memory' = memory
          /\ display' = display]_vars

\* I = 0xFFF and Draw V0, V1, 2 has failed reading the sprite's second byte:
\* PC is past the Draw and the display is still blank
C31_Witness ==
    /\ cycles = 2
    /\ WordAt(\H202) = \HD012
    /\ FailedWith(\HD012, \H202, CpuMemory(OutOfBounds(\H1000)))
    /\ cpu = [CpuNew EXCEPT !.pc = \H204, !.i = \HFFF]
    /\ display = DisplayNew

(***************************************************************************)
(* The key wait under a driver that keeps calling execute_cycle and an     *)
(* input that eventually queues a key press: the two weak fairness         *)
(* conditions.  A queued press stays queued until the CPU takes it.        *)
(* cycles counts the calls up to MaxWaitCycles and stays there, so that a  *)
(* wait may last any number of cycles.                                     *)
(***************************************************************************)
MaxWaitCycles == 3

KeyWaitCycle ==
    /\ cycles < MaxWaitCycles \/ cpu.state.tag = "WaitingForKey"
    /\ ~Panicked(result)
    /\ \E overflow_checks \in BOOLEAN :
          LET r == execute_cycle(cpu, memory, display, input, overflow_checks)
          IN  /\ cpu' = r.cpu
              /\ memory' = r.memory
              /\ display' = r.display
              /\ input' = r.input
              /\ result' = r.res
    /\ cycles' = IF cycles < MaxWaitCycles THEN cycles + 1 ELSE cycles
    /\ UNCHANGED arg

KeyWaitSpec ==
    \* the programs that wait for a key
    /\ Boot({RomBytes(words) : words \in {<<\HF10A, \HF20A>>, <<\HFF0A, \H1200>>,
                                          <<\H6003, \HF015, \H6102, \HF118, \HF20A>>}})
    /\ [][KeyWaitCycle \/ PressKey \/ ReleaseKey]_vars
    /\ WF_vars(KeyWaitCycle)
    /\ WF_vars(PressKey)

\* C32: a CPU in WaitingForKey{x}, under a driver that keeps calling
\* execute_cycle and an input that eventually offers a key k that stays
\* available until taken, eventually returns to Running with Vx = k; until then
\* it stays in WaitingForKey{x} with the same x.
C32_KeyWaitEnds ==
    /\ (cpu.state.tag = "WaitingForKey") ~> (cpu.state = Running)
    /\ [][cpu.state.tag = "WaitingForKey" =>
             \/ cpu'.state = cpu.state
             \/ /\ Offered.some
                /\ cpu' = [cpu EXCEPT !.v[cpu.state.vx] = Offered.val,
                                      !.state = Running]]_vars

\* F10A has waited at least one cycle and then taken key 11 into V1
C32_Witness ==
    /\ WordAt(\H200) = \HF10A
    /\ cycles = MaxWaitCycles
    /\ cpu.state = Running
    /\ cpu.pc = \H202
    /\ cpu.v[1] = 11

\* C33: the call stack is last-in first-out: each Return sets PC to the address
\* of the most recent Call not yet returned from, plus 2, at every nesting depth
\* 1..16; stack entries below sp are changed by no instruction other than the
\* Call that wrote them.  (A Call at address A puts A + 2 on top, at index sp; a
\* Return takes the top; the entries below the top stay: so the entries below
\* sp are the return addresses of the calls not yet returned from, oldest
\* first.)
C33_StackIsLifo ==
    [][CycleStep =>
          /\ (Fetches("Call") /\ result'.ok) =>
                /\ cpu'.sp = cpu.sp + 1
                /\ cpu'.stack[cpu.sp] = cpu.pc + 2
          /\ (Fetches("Ret") /\ result'.ok) =>
                /\ cpu.sp \in 1..16
                /\ cpu'.sp = cpu.sp - 1
                /\ cpu'.pc = cpu.stack[cpu.sp - 1]
                /\ cpu'.stack = cpu.stack
          /\ ~((Fetches("Call") \/ Fetches("Ret")) /\ result'.ok) =>
                /\ cpu'.sp = cpu.sp
                /\ cpu'.stack = cpu.stack
          /\ \A k \in 0..(STACK_SIZE - 1) :
                (k < cpu.sp /\ k < cpu'.sp) => cpu'.stack[k] = cpu.stack[k]]_vars

\* 16 nested calls have been returned from, innermost first: the last Return
\* came back to 0x202, behind the first Call
C33_Witness ==
    /\ cycles = 32
    /\ WordAt(\H23C) = \H2240 /\ WordAt(\H240) = \H00EE
    /\ cpu.sp = 0
    /\ cpu.pc = \H202
    /\ cpu.stack[0] = \H202
    /\ cpu.stack[15] = \H23E
    /\ result = Ok(TRUE)

\* C34: in every reachable state PC <= 0x10FE: JumpV0 sets PC = addr + V0
\* without masking (at most 0xFFF + 0xFF), every other instruction leaves
\* PC <= 0x1002, and a cycle with PC >= 0xFFF fails before adding; so none of
\* the 16-bit additions to PC overflows.
C34_PcBound ==
    /\ [](cpu.pc <= \H10FE)
    /\ [][CycleStep =>
             /\ Fetches("JumpV0") =>
                   /\ result'.ok
                   /\ cpu'.pc = NextInstruction.addr + cpu.v[0]
             /\ (Fetching /\ ~Fetches("JumpV0")) => cpu'.pc <= \H1002
             /\ (cpu.state = Running /\ cpu.pc >= \HFFF) =>
                   ~result'.ok /\ cpu'.pc = cpu.pc
             /\ cpu'.pc # cpu.pc => ~Panicked(result')]_vars

\* V0 = 0xFF and JumpV0 0xFFF have run: PC is 0xFFF + 0xFF
C34_Witness ==
    /\ cycles = 2
    /\ WordAt(\H202) = \HBFFF
    /\ cpu.v[0] = \HFF
    /\ cpu.pc = \H10FE
    /\ result = Ok(TRUE)

(***************************************************************************)
(* A long run: V0 = 0xFF, I = 0xFFF, then AddIndex V0 again and again.     *)
(***************************************************************************)
MaxIndexCycles == 245

ExecuteIndexCycle == Cycle(MaxIndexCycles)

IndexSpec ==
    /\ Boot({RomBytes(<<\H60FF, \HAFFF>> \o [k \in 1..243 |-> \HF01E])})
    /\ [][ExecuteIndexCycle]_vars

\* C35: AddIndex sets I = I + Vx and leaves VF and every other register
\* unchanged, and the addition never overflows the 16-bit index register:
\* I + Vx <= 0xFFFF whenever AddIndex executes.
C35_AddIndex ==
    [][(CycleStep /\ Fetches("AddIndex")) =>
          LET Vx == cpu.v[NextInstruction.vx]
          IN  /\ cpu.i + Vx <= \HFFFF
              /\ result' = Ok(TRUE)
              /\ cpu' = [cpu EXCEPT !.pc = cpu.pc + 2, !.i = cpu.i + Vx]]_vars

\* cycles and memory calls made on one protected memory: programs whose store
\* instructions point I into the protected region, run by execute_cycle between
\* calls of the memory's own methods
MaxProtectCalls == 3

ProtectRoms ==
    { RomBytes(<<\H60AB, \HA050, \HF055>>),
      RomBytes(<<\H60FF, \HA1FE, \HF033>>),
      RomBytes(<<\HA000, \HFF55, \HFF65>>) }

\* the addresses written: a glyph's first byte, the last protected byte, the
\* first byte of the program
ProtectAddrs == {\H050, \H1FF, \H200}

ProtectInit == Boot(ProtectRoms)

\* Cpu::execute_cycle on the booted machine
ProtectCycle ==
    /\ cycles < MaxProtectCalls
    /\ ~Panicked(result)
    /\ \E overflow_checks \in BOOLEAN :
          \E r \in {execute_cycle(cpu, memory, display, input, overflow_checks)} :
             /\ cpu' = r.cpu
             /\ memory' = r.memory
             /\ display' = r.display
             /\ input' = r.input
             /\ result' = r.res
    /\ arg' = [call |-> "execute_cycle"]
    /\ cycles' = cycles + 1

\* Memory::write_byte, write_word and load_rom on the booted machine's memory
ProtectWrite ==
    /\ cycles < MaxProtectCalls
    /\ ~Panicked(result)
    /\ \/ \E addr \in ProtectAddrs, value \in {\HAB} :
             LET written == write_byte(memory, addr, value)
             IN  /\ memory' = written.memory
                 /\ result' = written.res
                 /\ arg' = [call |-> "write_byte", addr |-> addr, value |-> value]
       \/ \E addr \in ProtectAddrs, value \in WordValues :
             LET written == write_word(memory, addr, value)
             IN  /\ memory' = written.memory
                 /\ result' = written.res
                 /\ arg' = [call |-> "write_word", addr |-> addr, value |-> value]
       \/ \E rom_data \in {Payload(2), Payload(MAX_ROM_SIZE)} :
             LET loaded == load_rom(memory, rom_data)
             IN  /\ memory' = loaded.memory
                 /\ result' = loaded.res
                 /\ arg' = [call |-> "load_rom", rom_data |-> rom_data]
    /\ cycles' = cycles + 1
    /\ UNCHANGED <<cpu, display, input>>

ProtectSpec == ProtectInit /\ [][ProtectCycle \/ ProtectWrite]_vars

\* C36: with write protection enabled, no sequence of write_byte, write_word,
\* load_rom and execute_cycle calls changes a byte at 0x000..0x1FF; the font
\* table at 0x050..0x09F always equals the built-in glyph table, so glyph d is
\* always readable at 0x050 + 5 * d.
C36_LowMemoryProtected ==
    /\ [](/\ memory.write_protection_enabled
          /\ \A a \in 0..\H1FF :
                memory.ram[a] = MemoryNew(TRUE).ram[a]
          /\ \A d \in 0..15 :
                /\ get_font_sprite_addr(memory, d) = Ok(\H050 + 5 * d)
                /\ \A k \in 0..4 :
                      read_byte(memory, \H050 + 5 * d + k)
                         = Ok(FONT_SET[5 * d + k + 1]))
    /\ [][(/\ cycles' = cycles + 1
           /\ arg'.call \in {"write_byte", "write_word", "load_rom",
                             "execute_cycle"}) =>
             \A a \in 0..\H1FF : memory'.ram[a] = memory.ram[a]]_vars

\* the third cycle of the program 60AB A050 F055 ran the store of V0 = 0xAB
\* at I = 0x050, the first byte of glyph 0, which still reads 0xF0
C36_Witness ==
    /\ cycles = 3
    /\ arg = [call |-> "execute_cycle"]
    /\ result = Ok(TRUE)
    /\ WordAt(\H204) = \HF055
    /\ cpu.pc = \H206
    /\ cpu.i = \H050
    /\ cpu.v[0] = \HAB
    /\ memory.write_protection_enabled
    /\ memory.ram[\H050] = \HF0

\* ---------------------------------------------------------------------------
\* Emulator::run_with_renderer: the run loop
\* ---------------------------------------------------------------------------

\* iterations explored per run of the loop, and successful steps explored per
\* emulator
MaxRunCycles == 5

\* the break test after a successful cycle
reached_max_cycles(max_cycles, cycles_executed) ==
    max_cycles > 0 /\ cycles_executed >= max_cycles

\* Emulator::new and Emulator::load_rom. arg is the emulator: its config,
\* cycles_executed, is_running, the place of the thread that drives it (at:
\* "idle" before a run, then in the loop at its "check" or in its "body", then
\* "exited"), the break that ended the loop (exit), the ControlAction of the
\* last render (control) and whether Ctrl+C or stop has stored into the flag
\* (ctrl_c). cycles counts the calls of execute_cycle the run loop has made.
RunInit ==
    /\ cpu = CpuNew
    /\ \E words \in {<<\H6003, \HF015, \H6102, \HF118, \H1208>>,
                     <<\H6003, \HF015, \HF10A>>,
                     <<\H6003, \HF015, \H1FFF>>,
                     <<\H6001, \H00EE>>} :
          memory = load_rom(MemoryNew(TRUE), RomBytes(words)).memory
    /\ display = DisplayNew
    /\ input = InputNew
    /\ result = Ok(TRUE)
    /\ cycles = 0
    /\ \E max_cycles \in {0, 3}, renderer \in BOOLEAN :
          arg = [max_cycles |-> max_cycles, renderer |-> renderer,
                 write_protection |-> TRUE, cycles_executed |-> 0,
                 is_running |-> FALSE, at |-> "idle", exit |-> "none",
                 control |-> "None", ctrl_c |-> FALSE]

\* Emulator::step: Input::update (which does nothing), one cycle, and the count
\* of the cycle unless it failed; result is what step returns
Step ==
    /\ arg.at = "idle"
    /\ ~Panicked(result)
    /\ arg.cycles_executed < MaxRunCycles
    /\ \E overflow_checks \in BOOLEAN :
       \E r \in {execute_cycle(cpu, memory, display, input, overflow_checks)} :
          /\ cpu' = r.cpu
          /\ memory' = r.memory
          /\ display' = r.display
          /\ input' = r.input
          /\ result' = IF Panicked(r.res) THEN r.res
                       ELSE IF ~r.res.ok THEN Err([kind |-> "Cpu", source |-> r.res.err])
                       ELSE Ok(TRUE)
          /\ arg' = IF r.res.ok
                    THEN [arg EXCEPT !.cycles_executed = arg.cycles_executed + 1]
                    ELSE arg
    /\ UNCHANGED cycles

\* the head of run_with_renderer: true is stored into is_running and
\* cycles_executed starts again at 0
StartRun ==
    /\ arg.at = "idle"
    /\ ~Panicked(result)
    /\ arg' = [arg EXCEPT !.is_running = TRUE, !.cycles_executed = 0, !.at = "check"]
    /\ result' = Ok(TRUE)
    /\ UNCHANGED <<cpu, memory, display, input, cycles>>

\* the top of an iteration: the load of is_running and, on false, the break
\* and the store after the loop
RunLoopCheck_ignores_flag ==
    /\ arg.at = "check"
    /\ arg.cycles_executed < MaxRunCycles
    /\ arg' = [arg EXCEPT !.at = "body"]
    /\ UNCHANGED <<cpu, memory, display, input, result, cycles>>

RunLoopCheck ==
    /\ arg.at = "check"
    /\ arg.is_running => arg.cycles_executed < MaxRunCycles
    /\ arg' = IF arg.is_running
              THEN [arg EXCEPT !.at = "body"]
              ELSE [arg EXCEPT !.at = "exited", !.exit = "stopped",
                               !.is_running = FALSE]
    /\ UNCHANGED <<cpu, memory, display, input, result, cycles>>

\* the rest of an iteration: the count, Input::update (which does nothing),
\* the cycle, the max_cycles test, the render with its ControlAction
\* (Emulator::reset on Reset) or its error, and the sleep. result is the value
\* the run returns once the loop is left, an error of the cycle or of the
\* render leaving the flag as it is; a cycle that panics unwinds out of the
\* run, which returns nothing: result is then the panic.
RunLoopBody ==
    /\ arg.at = "body"
    /\ cycles' = cycles + 1
    /\ \E overflow_checks \in BOOLEAN,
          control \in {"None", "Reset", "TogglePause", "Quit", "Err"} :
       \E r \in {execute_cycle(cpu, memory, display, input, overflow_checks)} :
          LET executed == arg.cycles_executed + 1
              counted == [arg EXCEPT !.cycles_executed = executed, !.control = "None"]
              rendered == arg.renderer /\ r.res.ok
                             /\ ~reached_max_cycles(arg.max_cycles, executed)
              reset == rendered /\ control = "Reset"
          IN  /\ result' = IF Panicked(r.res)
                               THEN r.res
                            ELSE IF ~r.res.ok
                               THEN Err([kind |-> "Cpu", source |-> r.res.err])
                            ELSE IF rendered /\ control = "Err"
                               THEN Err([kind |-> "Renderer"])
                            ELSE Ok(TRUE)
              /\ cpu' = IF reset THEN CpuNew ELSE r.cpu
              /\ memory' = IF reset THEN MemoryNew(arg.write_protection) ELSE r.memory
              /\ display' = IF reset THEN DisplayNew ELSE r.display
              /\ input' = IF reset THEN InputNew ELSE r.input
              /\ arg' = IF Panicked(r.res)
                           THEN [counted EXCEPT !.at = "exited", !.exit = "panic"]
                        ELSE IF ~r.res.ok
                           THEN [counted EXCEPT !.at = "exited", !.exit = "error"]
                        ELSE IF reached_max_cycles(arg.max_cycles, executed)
                           THEN [counted EXCEPT !.at = "exited", !.exit = "max",
                                                !.is_running = FALSE]
                        ELSE IF ~arg.renderer
                           THEN [counted EXCEPT !.at = "check"]
                        ELSE IF control = "Err"
                           THEN [counted EXCEPT !.at = "exited", !.exit = "render error",
                                                !.control = control]
                        ELSE IF control = "Quit"
                           THEN [counted EXCEPT !.at = "exited", !.exit = "quit",
                                                !.control = control,
                                                !.is_running = FALSE]
                        ELSE IF control = "Reset"
                           THEN [counted EXCEPT !.at = "check", !.control = control,
                                                !.cycles_executed = 0,
                                                !.is_running = FALSE]
                        ELSE [counted EXCEPT !.at = "check", !.control = control]

\* the Ctrl+C handler, or Emulator::stop: false is stored into is_running
Stop ==
    /\ arg.is_running
    /\ arg' = [arg EXCEPT !.is_running = FALSE, !.ctrl_c = TRUE]
    /\ UNCHANGED <<cpu, memory, display, input, result, cycles>>

\* a driver that steps keeps stepping and the loop thread always gets to run;
\* Ctrl+C may never come
RunSpec ==
    /\ RunInit
    /\ [][Step \/ StartRun \/ RunLoopCheck \/ RunLoopBody \/ Stop]_vars
    /\ WF_vars(Step)
    /\ WF_vars(RunLoopCheck)
    /\ WF_vars(RunLoopBody)

\* C37: the driver ticks the timers: while the run loop or a driver's repeated
\* steps keep executing cycles, a delay timer or a sound timer that a program
\* set to a nonzero value eventually reaches 0 (as far as the runs are
\* explored: until the run ends or MaxRunCycles cycles are counted), and the
\* ticks come at 60Hz: an iteration of the loop sleeps 16 ms under the default
\* configuration, so three iterations after the program 6003 F015 .. has set
\* the delay timer to 3 in its second cycle, at least one tick has lowered it.
C37_DriverTicksTimers ==
    /\ (arg.at # "exited" /\ cpu.delay_timer > 0)
          ~> \/ cpu.delay_timer = 0
             \/ arg.at = "exited"
             \/ arg.cycles_executed = MaxRunCycles
    /\ (arg.at # "exited" /\ cpu.sound_timer > 0)
          ~> \/ cpu.sound_timer = 0
             \/ arg.at = "exited"
             \/ arg.cycles_executed = MaxRunCycles
    /\ []((/\ arg.at \in {"check", "body"}
           /\ WordAt(\H200) = \H6003
           /\ WordAt(\H202) = \HF015
           /\ arg.cycles_executed >= 5) => cpu.delay_timer < 3)

\* C38: once false is stored into is_running after the loop has started, the
\* loop terminates, and no iteration is begun after the store: the only cycle
\* that can still run is the one of the iteration that had passed the check,
\* so at most one more cycle is executed. Nothing stores true again.
C38_Cancellation ==
    /\ (arg.at \in {"check", "body"} /\ ~arg.is_running) ~> (arg.at = "exited")
    /\ [][(arg.at # "idle" /\ ~arg.is_running) =>
             /\ ~arg'.is_running
             /\ arg'.at = "body" => arg.at = "body"
             /\ arg.at = "check" => arg'.at \in {"check", "exited"}
             /\ arg.at = "exited" =>
                   /\ arg'.at = "exited"
                   /\ <<cpu', memory', display', cycles'>>
                         = <<cpu, memory, display, cycles>>]_vars

\* a headless run was stopped by Ctrl+C during its second iteration, after the
\* check: the second cycle still ran, a third did not
C38_Witness ==
    /\ arg.at = "exited"
    /\ arg.exit = "stopped"
    /\ arg.ctrl_c
    /\ ~arg.renderer
    /\ arg.max_cycles = 0
    /\ ~arg.is_running
    /\ arg.cycles_executed = 2
    /\ cycles = 2
    /\ cpu.pc = \H204
    /\ cpu.delay_timer = 3

\* C39: on ControlAction::Reset the loop resets the machine (CPU as new with
\* PC = 0x200 and Running, fresh memory, blank display) and keeps running: the
\* flag stays set, and the next iteration executes a cycle instead of ending
\* the run.
C39_ResetKeepsRunning ==
    [][/\ (arg.at = "body" /\ arg'.control = "Reset") =>
             /\ cpu' = CpuNew
             /\ memory' = MemoryNew(arg.write_protection)
             /\ display' = DisplayNew
             /\ arg'.at = "check"
             /\ arg'.is_running
       /\ (arg.at = "check" /\ arg.control = "Reset" /\ arg'.at # "check") =>
             arg'.at = "body"]_vars

\* C40: a run with max_cycles = N > 0 that met no execution error, no quit and
\* no Ctrl+C ends, and it ends only when the N-th call of execute_cycle has
\* returned, with cycles_executed = N, cycles that the CPU spent waiting for a
\* key included; a run with max_cycles = 0 ends only by an error, a quit or
\* Ctrl+C.
C40_MaxCycles ==
    /\ []((arg.at = "exited" /\ result.ok /\ arg.exit # "quit" /\ ~arg.ctrl_c) =>
             /\ arg.max_cycles > 0
             /\ arg.exit = "max"
             /\ arg.cycles_executed = arg.max_cycles
             /\ cycles = arg.max_cycles)
    /\ []((arg.at \in {"check", "body"} /\ arg.max_cycles > 0 /\ ~arg.ctrl_c) =>
             arg.cycles_executed < arg.max_cycles /\ cycles < arg.max_cycles)
    /\ (arg.at \in {"check", "body"} /\ arg.max_cycles > 0) ~> (arg.at = "exited")

====
